---- MODULE Spec2Model ----
(***************************************************************************)
(* Model of the pVM firmware core:                                         *)
(*   - the verified descriptor store  (pvmfw/avb/src/descriptor/mod.rs)    *)
(*   - the exception syndrome classifier, the fault dispatcher and the     *)
(*     eight exception entry points     (pvmfw/src/exceptions.rs)          *)
(*   - the run command of the vm tool   (vm/src/run.rs)                    *)
(*                                                                         *)
(* Six specifications share the module:                                    *)
(*   SpecDesc  descriptor callbacks applied to a Descriptors store         *)
(*   SpecVbmeta  Descriptors::from_vbmeta over a set of VBMeta blobs, and  *)
(*             the lookups its caller makes on the returned store          *)
(*   SpecEsr   the pure function Esr::from over a set of raw syndromes     *)
(*   SpecExc   normal execution interleaved with exception entry           *)
(*   SpecExcLive  SpecExc with handlers that run to completion             *)
(*   SpecRun   command_run, wait_for_vm and the binder callbacks           *)
(***************************************************************************)
EXTENDS Integers, Sequences, FiniteSets, TLC

VARIABLES
    \* ---- descriptor store (descriptor/mod.rs)
    hash_descriptors,   \* Descriptors.hash_descriptors: ArrayVec of HashDescriptor
    cb_record,          \* the raw record handed to the last callback
    cb_user_data,       \* the user_data pointer handed to the last callback
    cb_result,          \* what try_check_and_save_descriptor returned
    cb_panicked,        \* TRUE once ArrayVec::push was executed on a full vector
    vb_blob,            \* the AvbVBMetaData handed to from_vbmeta
    vb_state,           \* position of from_vbmeta, "idle" when it is not running
    vb_pos,             \* index of the record avb_descriptor_foreach visits next
    vb_result,          \* what from_vbmeta returned
    found,              \* per partition: calls of find_hash_descriptor and the last result
    counted,            \* calls of num_hash_descriptor and the last result
    \* ---- classifier (exceptions.rs, impl From<usize> for Esr)
    classify_in,        \* the raw syndrome last classified
    classify_out,       \* the Esr it was classified as
    \* ---- exception handling (exceptions.rs)
    memory_lock,        \* MEMORY's spin lock: "free", "interrupted" or "handler"
    memory_init,        \* MEMORY holds Some(tracker)
    mapped,             \* tracker state: pages mapped on demand
    dirty,              \* tracker state: pages flagged dirty
    logger_enabled,     \* the log sink is not suppressed
    pc,                 \* position of the running handler, "idle" when none runs
    handler,            \* name of the entry point entered last
    esr_raw,            \* esr_el1 as read by the handler
    esr,                \* its classification
    far,                \* far_el1 as read by the handler
    elr,                \* the return address passed to the handler
    result,             \* what handle_exception returned
    tries,              \* try_lock calls made by this handler execution
    tracker_calls,      \* tracker operations called by this handler execution
    out,                \* lines written to the console by this handler execution
    todo,               \* console and platform statements the handler has yet to execute
    reboots,            \* number of times reboot() was invoked
    \* ---- the vm tool's run command (vm/src/run.rs)
    daemonize,          \* command_run's argument
    run_pc,             \* "idle", "returned", or the statement command_run is at
    run_todo,           \* statements of wait_for_vm still to execute
    run_result,         \* what the function that returned last returned
    vm_alive,           \* the VM started by startVm is running
    service_alive,      \* VirtualizationService is running
    dead,               \* the AtomicFlag shared by wait_for_vm and its callbacks
    raised_by,          \* the callbacks that have raised the flag
    callback_registered, \* the VirtualMachineCallback is registered with the VM
    recipient_linked,   \* the DeathRecipient is linked to the VM's binder and not dropped
    run_out,            \* lines written to stdout
    callback_pc         \* position of onDied and of the death recipient's closure

cbVars   == <<hash_descriptors, cb_record, cb_user_data, cb_result, cb_panicked>>
vbVars   == <<vb_blob, vb_state, vb_pos, vb_result>>
lookupVars == <<found, counted>>
descVars == <<cbVars, vbVars, lookupVars>>
esrVars  == <<classify_in, classify_out>>
memVars  == <<memory_lock, memory_init, mapped, dirty>>
excVars  == <<memory_lock, memory_init, mapped, dirty, logger_enabled, pc, handler,
              esr_raw, esr, far, elr, result, tries, tracker_calls, out, todo, reboots>>
runVars  == <<daemonize, run_pc, run_todo, run_result, vm_alive, service_alive, dead,
              raised_by, callback_registered, recipient_linked, run_out, callback_pc>>
vars     == <<descVars, esrVars, excVars, runVars>>

(***************************************************************************)
(*                      VERIFIED DESCRIPTOR STORE                          *)
(***************************************************************************)

\* PartitionName: the closed enumeration of known partitions.
PartitionNames == {"Kernel", "InitrdNormal", "InitrdDebug"}

\* PartitionName::NUM_OF_KNOWN_PARTITIONS, the capacity of the ArrayVec.
NUM_OF_KNOWN_PARTITIONS == Cardinality(PartitionNames)

\* Partition identifiers as they appear in a raw record.
KnownIdentifiers   == {"boot", "initrd_normal", "initrd_debug"}
UnknownIdentifiers == {"vendor_boot", ""}
Identifiers        == KnownIdentifiers \cup UnknownIdentifiers

\* Contents of a hash descriptor.
Digests    == {"digestA", "digestB"}
ImageSizes == {4096}
Flags      == {0}

\* Descriptor kinds of a raw AvbDescriptor (its tag).
Tags == {"hash", "property"}

\* A raw AvbDescriptor as enumerated from the VBMeta blob.
RawDescriptors ==
    [tag : Tags, partition : Identifiers, digest : Digests,
     image_size : ImageSizes, flags : Flags]

\* utils::Result: Ok(v) or Err(e).
Ok(v)  == [ok |-> TRUE, val |-> v]
Err(e) == [ok |-> FALSE, err |-> e]

\* PartitionName::try_from(identifier): maps onto the closed enum, rejects others.
PartitionName_try_from(id) ==
    CASE id = "boot"          -> Ok("Kernel")
      [] id = "initrd_normal" -> Ok("InitrdNormal")
      [] id = "initrd_debug"  -> Ok("InitrdDebug")
      [] OTHER                -> Err("Io")

\* HashDescriptor::from_descriptor_ptr: the typed record of a raw hash descriptor.
HashDescriptor_from_descriptor_ptr(raw) ==
    LET name == PartitionName_try_from(raw.partition)
    IN  IF ~name.ok THEN Err(name.err)
        ELSE Ok([partition_name |-> name.val, digest |-> raw.digest,
                 image_size |-> raw.image_size, flags |-> raw.flags])

\* Descriptor::from_descriptor_ptr: only the Hash variant is recognized.
Descriptor_from_descriptor_ptr(raw) ==
    IF raw.tag = "hash" THEN HashDescriptor_from_descriptor_ptr(raw)
    ELSE Err("Io")

\* Mutant of HasPartition: only the first entry is compared.
HasPartition_first_only(store, p) ==
    Len(store) > 0 /\ store[1].partition_name = p

\* self.hash_descriptors.iter().any(|d| d.partition_name == p)
HasPartition(store, p) ==
    \E i \in 1..Len(store) : store[i].partition_name = p

\* Descriptors::num_hash_descriptor
num_hash_descriptor(store) == Len(store)

\* Mutant of find_hash_descriptor: the first entry is returned whatever its name.
find_hash_descriptor_first(store, p) ==
    IF Len(store) > 0 THEN Ok(store[1]) ELSE Err("InvalidMetadata")

\* Mutant of find_hash_descriptor: a missing descriptor is reported as Io.
find_hash_descriptor_wrong_error(store, p) ==
    IF HasPartition(store, p)
    THEN LET i == CHOOSE k \in 1..Len(store) :
                      /\ store[k].partition_name = p
                      /\ \A j \in 1..(k - 1) : store[j].partition_name # p
         IN  Ok(store[i])
    ELSE Err("Io")

\* Descriptors::find_hash_descriptor: the first entry with that partition name.
find_hash_descriptor(store, p) ==
    IF HasPartition(store, p)
    THEN LET i == CHOOSE k \in 1..Len(store) :
                      /\ store[k].partition_name = p
                      /\ \A j \in 1..(k - 1) : store[j].partition_name # p
         IN  Ok(store[i])
    ELSE Err("InvalidMetadata")

\* ArrayVec::push: appends, panics when the vector is at capacity.
ArrayVec_push(store, d) ==
    IF Len(store) >= NUM_OF_KNOWN_PARTITIONS
    THEN [store |-> store, panic |-> TRUE]
    ELSE [store |-> Append(store, d), panic |-> FALSE]

\* Mutant of push_hash_descriptor: the duplicate check is missing.
push_hash_descriptor_nocheck(store, d) ==
    LET r == ArrayVec_push(store, d)
    IN  [store |-> r.store, panic |-> r.panic, res |-> Ok("unit")]

\* Mutant of push_hash_descriptor: a duplicate is reported but overwrites the entry.
push_hash_descriptor_overwrite(store, d) ==
    IF HasPartition(store, d.partition_name)
    THEN [store |-> [i \in 1..Len(store) |->
                        IF store[i].partition_name = d.partition_name
                        THEN d ELSE store[i]],
          panic |-> FALSE, res |-> Err("Io")]
    ELSE LET r == ArrayVec_push(store, d)
         IN  [store |-> r.store, panic |-> r.panic, res |-> Ok("unit")]

\* Mutant of push_hash_descriptor: a descriptor is a duplicate only when it
\* equals a stored one in every field.
push_hash_descriptor_whole_record(store, d) ==
    IF \E i \in 1..Len(store) : store[i] = d
    THEN [store |-> store, panic |-> FALSE, res |-> Err("Io")]
    ELSE LET r == ArrayVec_push(store, d)
         IN  [store |-> r.store, panic |-> r.panic, res |-> Ok("unit")]

\* Descriptors::push_hash_descriptor
push_hash_descriptor(store, d) ==
    IF HasPartition(store, d.partition_name)
    THEN [store |-> store, panic |-> FALSE, res |-> Err("Io")]
    ELSE LET r == ArrayVec_push(store, d)
         IN  [store |-> r.store, panic |-> r.panic, res |-> Ok("unit")]

\* Descriptors::push: dispatch on the variant; Hash is the only one.
push(store, d) == push_hash_descriptor(store, d)

\* Mutant of try_check_and_save_descriptor: a record that fails to decode is
\* stored under a default partition instead of being rejected.
try_check_and_save_descriptor_lenient(store, raw, user_data) ==
    IF user_data = "null"
    THEN [store |-> store, panic |-> FALSE, res |-> Err("Io")]
    ELSE LET d == Descriptor_from_descriptor_ptr(raw)
         IN  IF ~d.ok
             THEN push(store, [partition_name |-> "Kernel", digest |-> raw.digest,
                               image_size |-> raw.image_size, flags |-> raw.flags])
             ELSE push(store, d.val)

\* try_check_and_save_descriptor(descriptor, user_data)
try_check_and_save_descriptor(store, raw, user_data) ==
    IF user_data = "null"
    THEN [store |-> store, panic |-> FALSE, res |-> Err("Io")]
    ELSE LET d == Descriptor_from_descriptor_ptr(raw)
         IN  IF ~d.ok
             THEN [store |-> store, panic |-> FALSE, res |-> Err(d.err)]
             ELSE push(store, d.val)

\* check_and_save_descriptor: the extern "C" callback, one call per record.
\* Its bool return value is cb_result.ok.
check_and_save_descriptor(raw, user_data) ==
    LET r == try_check_and_save_descriptor(hash_descriptors, raw, user_data)
    IN  /\ ~cb_panicked
        /\ hash_descriptors' = r.store
        /\ cb_panicked' = r.panic
        /\ cb_record' = raw
        /\ cb_user_data' = user_data
        /\ cb_result' = r.res
        /\ UNCHANGED <<esrVars, excVars, runVars>>

NoRecord == [tag |-> "none", partition |-> "", digest |-> "", image_size |-> 0, flags |-> 0]

\* No callback has run: Descriptors::default().
InitCallbacks ==
    /\ hash_descriptors = <<>>
    /\ cb_record = NoRecord
    /\ cb_user_data = "null"
    /\ cb_result = Err("none")
    /\ cb_panicked = FALSE

\* The largest number of lookups of one partition, and of counts, made on a
\* store.
MaxLookups == 2

\* No lookup has been made.
NoLookup == [n |-> 0, res |-> Err("none")]
NoCount  == [n |-> 0, len |-> 0]

InitLookups ==
    /\ found = [p \in PartitionNames |-> NoLookup]
    /\ counted = NoCount

\* from_vbmeta is not running.
InitDesc ==
    /\ InitCallbacks
    /\ InitLookups
    /\ vb_blob = [null |-> TRUE, records |-> <<>>]
    /\ vb_state = "idle"
    /\ vb_pos = 0
    /\ vb_result = Err("none")

\* A callback invoked on the store by any driver, with any record.
DirectCallback(raw, user_data) ==
    /\ check_and_save_descriptor(raw, user_data)
    /\ UNCHANGED <<vbVars, lookupVars>>

NextDesc ==
    \E raw \in RawDescriptors, user_data \in {"null", "descriptors"} :
        DirectCallback(raw, user_data)

\* ---- Descriptors::from_vbmeta -------------------------------------------

\* The largest number of descriptors in a VBMeta blob.
MaxRecords == 4

\* The descriptors a blob is made of: a hash descriptor for each known
\* partition and for an unknown one, a second one for "boot" with another
\* digest, and a property descriptor.
BlobRecords ==
    { r \in RawDescriptors :
        \/ r.tag = "hash" /\ r.digest = "digestA" /\ r.partition # ""
        \/ r.tag = "hash" /\ r.digest = "digestB" /\ r.partition = "boot"
        \/ r.tag = "property" /\ r.digest = "digestA" /\ r.partition = "" }

\* AvbVBMetaData: vbmeta_data is null, or points to a blob holding a sequence
\* of descriptors.
Blobs ==
    {[null |-> TRUE, records |-> <<>>]} \cup
    { [null |-> FALSE, records |-> s] :
        s \in UNION { [1..n -> BlobRecords] : n \in 0..MaxRecords } }

\* Mutant of from_vbmeta_null_check: a null blob is reported as InvalidMetadata.
from_vbmeta_null_check_wrong_error(blob) ==
    IF blob.null THEN Err("InvalidMetadata") ELSE Ok("unit")

\* from_vbmeta: is_not_null(vbmeta.vbmeta_data).map_err(|_| AvbSlotVerifyError::Io)?
from_vbmeta_null_check(blob) ==
    IF blob.null THEN Err("Io") ELSE Ok("unit")

\* Mutant of from_vbmeta_return: the result of avb_descriptor_foreach is ignored.
from_vbmeta_return_ignores_foreach(foreach_ok, store) == Ok(store)

\* from_vbmeta: if !avb_descriptor_foreach(..) { return Err(InvalidMetadata) }
\* Ok(descriptors)
from_vbmeta_return(foreach_ok, store) ==
    IF ~foreach_ok THEN Err("InvalidMetadata") ELSE Ok(store)

\* Mutant of is_ok: the callback reports success whatever the result.
is_ok_always(res) == TRUE

\* check_and_save_descriptor's return value: try_check_and_save_descriptor(..).is_ok()
is_ok(res) == res.ok

\* avb_descriptor_foreach goes on to the next descriptor when the callback
\* returned true and stops, returning false, when it returned false.
avb_descriptor_foreach_continues(callback_returned) == callback_returned

\* from_vbmeta up to the call of avb_descriptor_foreach.
FromVbmetaEnter ==
    /\ vb_state = "called"
    /\ LET c == from_vbmeta_null_check(vb_blob)
       IN  IF ~c.ok
           THEN /\ vb_result' = c
                /\ vb_state' = "returned"
                /\ UNCHANGED <<hash_descriptors, vb_pos>>
           ELSE /\ hash_descriptors' = <<>>
                /\ vb_state' = "foreach"
                /\ vb_pos' = 1
                /\ UNCHANGED vb_result
    /\ UNCHANGED <<cb_record, cb_user_data, cb_result, cb_panicked, vb_blob, lookupVars>>
    /\ UNCHANGED <<esrVars, excVars, runVars>>

\* avb_descriptor_foreach hands the next descriptor to the callback.
ForeachCallback ==
    /\ vb_state = "foreach"
    /\ vb_pos <= Len(vb_blob.records)
    /\ check_and_save_descriptor(vb_blob.records[vb_pos], "descriptors")
    /\ IF avb_descriptor_foreach_continues(is_ok(cb_result'))
       THEN vb_pos' = vb_pos + 1 /\ vb_state' = "foreach"
       ELSE vb_pos' = vb_pos /\ vb_state' = "foreach_false"
    /\ UNCHANGED <<vb_blob, vb_result, lookupVars>>

\* avb_descriptor_foreach has returned; from_vbmeta returns.  On Err the
\* local store is dropped and the caller gets none.
FromVbmetaReturn ==
    /\ \/ vb_state = "foreach_false"
       \/ vb_state = "foreach" /\ vb_pos > Len(vb_blob.records)
    /\ vb_result' = from_vbmeta_return(vb_state = "foreach", hash_descriptors)
    /\ vb_state' = "returned"
    /\ UNCHANGED <<cbVars, vb_blob, vb_pos, lookupVars>>
    /\ UNCHANGED <<esrVars, excVars, runVars>>

\* ---- the store in the hands of from_vbmeta's caller ---------------------

\* Mutant of FindHashDescriptor: the descriptor found is taken out of the
\* store.
FindHashDescriptor_takes(p) ==
    /\ vb_state = "returned" /\ vb_result.ok
    /\ found[p].n < MaxLookups
    /\ found' = [found EXCEPT ![p] = [n   |-> found[p].n + 1,
                                      res |-> find_hash_descriptor(vb_result.val, p)]]
    /\ vb_result' = Ok(SelectSeq(vb_result.val, LAMBDA d : d.partition_name # p))
    /\ UNCHANGED <<cbVars, vb_blob, vb_state, vb_pos, counted>>
    /\ UNCHANGED <<esrVars, excVars, runVars>>

\* The caller calls find_hash_descriptor(&self, p) on the store it was given.
FindHashDescriptor(p) ==
    /\ vb_state = "returned" /\ vb_result.ok
    /\ found[p].n < MaxLookups
    /\ found' = [found EXCEPT ![p] = [n   |-> found[p].n + 1,
                                      res |-> find_hash_descriptor(vb_result.val, p)]]
    /\ UNCHANGED <<cbVars, vbVars, counted>>
    /\ UNCHANGED <<esrVars, excVars, runVars>>

\* The caller calls num_hash_descriptor(&self) on the store it was given.
NumHashDescriptor ==
    /\ vb_state = "returned" /\ vb_result.ok
    /\ counted.n < MaxLookups
    /\ counted' = [n |-> counted.n + 1, len |-> num_hash_descriptor(vb_result.val)]
    /\ UNCHANGED <<cbVars, vbVars, found>>
    /\ UNCHANGED <<esrVars, excVars, runVars>>

\* from_vbmeta has been called with any blob of Blobs.
InitVbmetaInputs ==
    /\ InitCallbacks
    /\ InitLookups
    /\ vb_blob \in Blobs
    /\ vb_state = "called"
    /\ vb_pos = 0
    /\ vb_result = Err("none")

NextVbmeta ==
    \/ FromVbmetaEnter
    \/ ForeachCallback
    \/ FromVbmetaReturn
    \/ \E p \in PartitionNames : FindHashDescriptor(p)
    \/ NumHashDescriptor

(***************************************************************************)
(*                    EXCEPTION SYNDROME CLASSIFIER                        *)
(*                                                                         *)
(* usize is 64 bits wide on aarch64.  A value is held as four 16-bit       *)
(* limbs, most significant first, so that every bit of the word is kept:   *)
(* 0x96000010 is <<0, 0, 0x9600, 0x0010>>.                                   *)
(***************************************************************************)

RECURSIVE AndBits(_, _, _)
\* Bitwise AND of the n low bits of a and b.
AndBits(a, b, n) ==
    IF n = 0 THEN 0
    ELSE (a % 2) * (b % 2) + 2 * AndBits(a \div 2, b \div 2, n - 1)

\* Mutant of And64: the operands are truncated to 32 bits.
And64_truncating(a, b) == <<0, 0, AndBits(a[3], b[3], 16), AndBits(a[4], b[4], 16)>>

\* a & b on 64-bit words.
And64(a, b) == [i \in 1..4 |-> AndBits(a[i], b[i], 16)]

\* !a on 64-bit words.
Not64(a) == [i \in 1..4 |-> \HFFFF - a[i]]

\* A small literal widened to usize.
Usize(n) == <<0, 0, 0, n>>

\* Esr::EXT_DABT_32BIT = 0x96000010
EXT_DABT_32BIT == <<0, 0, \H9600, \H0010>>
\* Esr::TRANSL_FAULT_BASE_32BIT = 0x96000004
TRANSL_FAULT_BASE_32BIT == <<0, 0, \H9600, \H0004>>
\* Mutant of TRANSL_FAULT_ISS_MASK_32BIT: bit 3 is ignored as well.
TRANSL_FAULT_ISS_MASK_32BIT_ignores_bit3 == Not64(Usize(\H014B))

\* Esr::TRANSL_FAULT_ISS_MASK_32BIT = !0x143
TRANSL_FAULT_ISS_MASK_32BIT == Not64(Usize(\H0143))
\* Esr::PERM_FAULT_BASE_32BIT = 0x9600004C
PERM_FAULT_BASE_32BIT == <<0, 0, \H9600, \H004C>>
\* Esr::PERM_FAULT_ISS_MASK_32BIT = !0x103
PERM_FAULT_ISS_MASK_32BIT == Not64(Usize(\H0103))

\* enum Esr
DataAbortTranslationFault  == [tag |-> "DataAbortTranslationFault"]
DataAbortPermissionFault   == [tag |-> "DataAbortPermissionFault"]
DataAbortSyncExternalAbort == [tag |-> "DataAbortSyncExternalAbort"]
Unknown(v)                 == [tag |-> "Unknown", v |-> v]

\* The classifier with its three tests applied in another order: the masked
\* tests before the exact one.
Esr_from_masked_first(raw) ==
    IF And64(raw, TRANSL_FAULT_ISS_MASK_32BIT) = TRANSL_FAULT_BASE_32BIT
    THEN DataAbortTranslationFault
    ELSE IF And64(raw, PERM_FAULT_ISS_MASK_32BIT) = PERM_FAULT_BASE_32BIT
    THEN DataAbortPermissionFault
    ELSE IF raw = EXT_DABT_32BIT
    THEN DataAbortSyncExternalAbort
    ELSE Unknown(raw)

\* Mutant of Esr_from: the permission test uses the translation mask.
Esr_from_wrong_mask(raw) ==
    IF raw = EXT_DABT_32BIT
    THEN DataAbortSyncExternalAbort
    ELSE IF And64(raw, TRANSL_FAULT_ISS_MASK_32BIT) = TRANSL_FAULT_BASE_32BIT
    THEN DataAbortTranslationFault
    ELSE IF And64(raw, TRANSL_FAULT_ISS_MASK_32BIT) = PERM_FAULT_BASE_32BIT
    THEN DataAbortPermissionFault
    ELSE Unknown(raw)

\* impl From<usize> for Esr
Esr_from(raw) ==
    IF raw = EXT_DABT_32BIT
    THEN DataAbortSyncExternalAbort
    ELSE IF And64(raw, TRANSL_FAULT_ISS_MASK_32BIT) = TRANSL_FAULT_BASE_32BIT
    THEN DataAbortTranslationFault
    ELSE IF And64(raw, PERM_FAULT_ISS_MASK_32BIT) = PERM_FAULT_BASE_32BIT
    THEN DataAbortPermissionFault
    ELSE Unknown(raw)

RECURSIVE SumOf(_)
SumOf(S) == IF S = {} THEN 0 ELSE LET x == CHOOSE y \in S : TRUE IN x + SumOf(S \ {x})

\* Raw syndromes classified under SpecEsr: every combination of the ISS bits
\* the masks and bases mention (and two they do not), under four values of
\* the upper half-word and with bits above bit 31 clear or set.
LowLimbs == { SumOf(S) : S \in SUBSET {\H0001, \H0002, \H0004, \H0008, \H0010,
                                       \H0040, \H0080, \H0100} }
RawSyndromes ==
    { <<w3, w2, w1, w0>> : w3 \in {0, \H8000}, w2 \in {0, 1},
                           w1 \in {0, \H9600, \H9200, \H9601}, w0 \in LowLimbs }

\* One application of the classifier, to the input drawn by the initial state.
Classify ==
    /\ classify_out = [tag |-> "none"]
    /\ classify_out' = Esr_from(classify_in)
    /\ UNCHANGED classify_in
    /\ UNCHANGED <<descVars, excVars, runVars>>

\* No classification is in progress.
InitEsr ==
    /\ classify_in = Usize(0)
    /\ classify_out = [tag |-> "none"]

\* Any raw syndrome of RawSyndromes is about to be classified.
InitEsrInputs ==
    /\ classify_in \in RawSyndromes
    /\ classify_out = [tag |-> "none"]

NextEsr == Classify


(***************************************************************************)
(*              FAULT DISPATCHER AND EXCEPTION ENTRY POINTS                *)
(***************************************************************************)

\* vmbase::console::BASE_ADDRESS, the address of the UART.
BASE_ADDRESS == \H03F8

\* vmbase::memory::page_4kb_of(addr) = addr & !(SIZE_4KB - 1)
page_4kb_of(addr) == addr - (addr % 4096)

\* const UART_PAGE
UART_PAGE == page_4kb_of(BASE_ADDRESS)

\* Values of far_el1 at exception entry: the UART itself, the last word of
\* the UART's page, and the first address of the next page.
FaultAddresses == {BASE_ADDRESS, \H0FFC, \H1000}
Pages == { page_4kb_of(a) : a \in FaultAddresses }

\* Values of the return address passed to a handler.
ReturnAddresses == {\H4000, \H4004}

\* Values of esr_el1 at exception entry.
EntrySyndromes ==
    { EXT_DABT_32BIT,                   \* synchronous external abort
      TRANSL_FAULT_BASE_32BIT,          \* translation fault, read
      <<0, 0, \H9600, \H0044>>,         \* translation fault, write
      PERM_FAULT_BASE_32BIT,            \* permission fault, write
      <<0, 0, \H9600, \H014F>>,         \* permission fault, write, ISS bits set
      <<0, 0, \H9600, \H000C>>,         \* permission fault, read
      <<0, 1, \H9600, \H0004>>,         \* a bit above bit 31 set
      Usize(0) }

\* MemoryTrackerError values the tracker may report.
MemoryTrackerErrors == {"TrackerErrorA", "TrackerErrorB"}

\* enum HandleExceptionError
PageTableUnavailable    == [kind |-> "PageTableUnavailable"]
PageTableNotInitialized == [kind |-> "PageTableNotInitialized"]
InternalError(e)        == [kind |-> "InternalError", inner |-> e]
UnknownException        == [kind |-> "UnknownException"]

\* impl From<MemoryTrackerError> for HandleExceptionError
HandleExceptionError_from(e) == InternalError(e)

\* impl fmt::Display for HandleExceptionError
HandleExceptionError_fmt(e) ==
    CASE e.kind = "PageTableUnavailable"    -> [text |-> "Page table is not available."]
      [] e.kind = "PageTableNotInitialized" -> [text |-> "Page table is not initialized."]
      [] e.kind = "InternalError" ->
            [text |-> "Error while updating page table: ", arg |-> e.inner]
      [] e.kind = "UnknownException" ->
            [text |-> "An unknown exception occurred, not handled."]

\* impl fmt::Display for Esr
Esr_fmt(e) ==
    CASE e.tag = "DataAbortSyncExternalAbort" -> [text |-> "Synchronous external abort"]
      [] e.tag = "DataAbortTranslationFault"  -> [text |-> "Translation fault"]
      [] e.tag = "DataAbortPermissionFault"   -> [text |-> "Permission fault"]
      [] e.tag = "Unknown" -> [text |-> "Unknown exception esr=", arg |-> e.v]

NoEsr    == [tag |-> "none"]
NoResult == [ok |-> FALSE, err |-> [kind |-> "none"]]
Unit     == "unit"

\* MEMORY.try_lock(): Some(guard) when the lock is free, None otherwise; one
\* attempt, no waiting.
try_lock(lock) == lock = "free"

\* Mutant of AcquireMemory: initialization is tested before contention.
AcquireMemory_init_first(lock, init) ==
    IF ~init
    THEN [acquired |-> FALSE, tries |-> 1, res |-> Err(PageTableNotInitialized)]
    ELSE IF ~try_lock(lock)
    THEN [acquired |-> FALSE, tries |-> 1, res |-> Err(PageTableUnavailable)]
    ELSE [acquired |-> TRUE, tries |-> 1, res |-> NoResult]

\* Mutant of AcquireMemory: a failed try_lock is retried once.
AcquireMemory_retry(lock, init) ==
    IF ~try_lock(lock)
    THEN [acquired |-> FALSE, tries |-> 2, res |-> Err(PageTableUnavailable)]
    ELSE IF ~init
    THEN [acquired |-> FALSE, tries |-> 1, res |-> Err(PageTableNotInitialized)]
    ELSE [acquired |-> TRUE, tries |-> 1, res |-> NoResult]

\* Mutant of AcquireMemory: an uninitialized MEMORY is unwrapped as if set.
AcquireMemory_unwrap(lock, init) ==
    IF ~try_lock(lock)
    THEN [acquired |-> FALSE, tries |-> 1, res |-> Err(PageTableUnavailable)]
    ELSE [acquired |-> TRUE, tries |-> 1, res |-> NoResult]

\* The first two statements of handle_translation_fault and of
\* handle_permission_fault:
\*     let mut guard = MEMORY.try_lock().ok_or(PageTableUnavailable)?;
\*     let memory = guard.as_mut().ok_or(PageTableNotInitialized)?;
\* A guard taken and not kept is dropped when the function returns.
AcquireMemory(lock, init) ==
    IF ~try_lock(lock)
    THEN [acquired |-> FALSE, tries |-> 1, res |-> Err(PageTableUnavailable)]
    ELSE IF ~init
    THEN [acquired |-> FALSE, tries |-> 1, res |-> Err(PageTableNotInitialized)]
    ELSE [acquired |-> TRUE, tries |-> 1, res |-> NoResult]

\* Mutant of handle_exception: external aborts are routed to the
\* translation-fault path.
handle_exception_abort_serviced(e) ==
    CASE e = DataAbortTranslationFault  -> "handle_mmio_fault"
      [] e = DataAbortPermissionFault   -> "handle_permission_fault"
      [] e = DataAbortSyncExternalAbort -> "handle_mmio_fault"
      [] OTHER                          -> "none"

\* Mutant of handle_exception: the two handled arms are swapped.
handle_exception_swapped(e) ==
    CASE e = DataAbortTranslationFault -> "handle_permission_fault"
      [] e = DataAbortPermissionFault  -> "handle_mmio_fault"
      [] OTHER                         -> "none"

\* Mutant of handle_exception: unknown syndromes are routed to the
\* permission-fault path.
handle_exception_unknown_serviced(e) ==
    CASE e = DataAbortTranslationFault -> "handle_mmio_fault"
      [] e = DataAbortPermissionFault  -> "handle_permission_fault"
      [] e.tag = "Unknown"             -> "handle_permission_fault"
      [] OTHER                         -> "none"

\* handle_exception: the match on the fault class.  Names the tracker
\* operation the fault is routed to, "none" for the catch-all arm.
handle_exception(e) ==
    CASE e = DataAbortTranslationFault -> "handle_mmio_fault"
      [] e = DataAbortPermissionFault  -> "handle_permission_fault"
      [] OTHER                         -> "none"

\* Mutant of handling_uart_exception: the fault address is compared with the
\* UART's address instead of its page.
handling_uart_exception_exact_address(e, f) ==
    e = DataAbortSyncExternalAbort /\ f = BASE_ADDRESS

\* Mutant of handling_uart_exception: the fault class is not tested.
handling_uart_exception_any_class(e, f) ==
    page_4kb_of(f) = UART_PAGE

\* fn handling_uart_exception
handling_uart_exception(e, f) ==
    e = DataAbortSyncExternalAbort /\ page_4kb_of(f) = UART_PAGE

\* Statements of a handler body that act on the console or the platform.
Eprintln(line) == [op |-> "eprintln", line |-> line]
RebootCall     == [op |-> "reboot"]

\* The three lines sync_exception_current prints on failure.
SyncDiagnostics(e, res, f, el) ==
    << Eprintln([text |-> "sync_exception_current"]),
       Eprintln(HandleExceptionError_fmt(res.err)),
       Eprintln([esr |-> Esr_fmt(e), far |-> f, elr |-> el]) >>

\* Mutant of sync_exception_current_tail: the error is logged and the handler
\* returns.
sync_exception_current_tail_no_reboot(res, e, f, el) ==
    IF ~res.ok
    THEN IF ~handling_uart_exception(e, f) THEN SyncDiagnostics(e, res, f, el) ELSE <<>>
    ELSE <<>>

\* Mutant of sync_exception_current_tail: reboot is called before printing.
sync_exception_current_tail_reboot_first(res, e, f, el) ==
    IF ~res.ok
    THEN <<RebootCall>> \o
         (IF ~handling_uart_exception(e, f) THEN SyncDiagnostics(e, res, f, el) ELSE <<>>)
    ELSE <<>>

\* Mutant of sync_exception_current_tail: the test of the result is inverted.
sync_exception_current_tail_inverted(res, e, f, el) ==
    IF res.ok
    THEN <<Eprintln([text |-> "sync_exception_current"]), RebootCall>>
    ELSE <<>>

\* sync_exception_current after handle_exception returned: the statements
\* still to execute before the function's end.
sync_exception_current_tail(res, e, f, el) ==
    IF ~res.ok
    THEN (IF ~handling_uart_exception(e, f) THEN SyncDiagnostics(e, res, f, el) ELSE <<>>)
         \o <<RebootCall>>
    ELSE <<>>

\* The seven entry points that never recover.
FailStopHandlers ==
    {"irq_current", "fiq_current", "serr_current",
     "sync_lower", "irq_lower", "fiq_lower", "serr_lower"}

\* Those of them that read esr_el1 and write it to the console.
EsrReaders == {"serr_current", "sync_lower", "serr_lower"}

\* Mutant of FailStopBody: interrupts are logged and ignored.
FailStopBody_irq_returns(h, raw) ==
    IF h \in {"irq_current", "irq_lower"}
    THEN <<Eprintln([text |-> h])>>
    ELSE <<Eprintln([text |-> h])>>
         \o (IF h \in EsrReaders THEN <<Eprintln([text |-> "esr=", arg |-> raw])>> ELSE <<>>)
         \o <<RebootCall>>

\* Bodies of irq_current, fiq_current, serr_current, sync_lower, irq_lower,
\* fiq_lower and serr_lower.
FailStopBody(h, raw) ==
    <<Eprintln([text |-> h])>>
    \o (IF h \in EsrReaders THEN <<Eprintln([text |-> "esr=", arg |-> raw])>> ELSE <<>>)
    \o <<RebootCall>>


\* ---- normal execution, interrupted by the handlers ----------------------

\* The interrupted code takes MEMORY's lock.
NormalLock ==
    /\ pc = "idle" /\ memory_lock = "free"
    /\ memory_lock' = "interrupted"
    /\ UNCHANGED <<memory_init, mapped, dirty, logger_enabled, pc, handler, esr_raw, esr,
                   far, elr, result, tries, tracker_calls, out, todo, reboots>>
    /\ UNCHANGED <<descVars, esrVars, runVars>>

\* The interrupted code releases MEMORY's lock.
NormalUnlock ==
    /\ pc = "idle" /\ memory_lock = "interrupted"
    /\ memory_lock' = "free"
    /\ UNCHANGED <<memory_init, mapped, dirty, logger_enabled, pc, handler, esr_raw, esr,
                   far, elr, result, tries, tracker_calls, out, todo, reboots>>
    /\ UNCHANGED <<descVars, esrVars, runVars>>

\* The boot code stores the tracker in MEMORY, under the lock, once.
MemoryInit ==
    /\ pc = "idle" /\ memory_lock = "interrupted" /\ ~memory_init
    /\ memory_init' = TRUE
    /\ UNCHANGED <<memory_lock, mapped, dirty, logger_enabled, pc, handler, esr_raw, esr,
                   far, elr, result, tries, tracker_calls, out, todo, reboots>>
    /\ UNCHANGED <<descVars, esrVars, runVars>>

\* ---- sync_exception_current ---------------------------------------------

\* Entry: suppress the logger, classify esr_el1, read far_el1.
SyncEntry(raw, f, el) ==
    /\ pc = "idle"
    /\ handler' = "sync_exception_current"
    /\ logger_enabled' = FALSE
    /\ esr_raw' = raw
    /\ esr' = Esr_from(raw)
    /\ far' = f
    /\ elr' = el
    /\ result' = NoResult
    /\ tries' = 0
    /\ tracker_calls' = <<>>
    /\ out' = <<>>
    /\ todo' = <<>>
    /\ pc' = "handle_exception"
    /\ UNCHANGED <<memVars, reboots>>
    /\ UNCHANGED <<descVars, esrVars, runVars>>

\* Mutant of Dispatch: a contended lock is waited for instead of reported.
Dispatch_spins ==
    /\ pc = "handle_exception"
    /\ LET op == handle_exception(esr)
           a  == AcquireMemory(memory_lock, memory_init)
       IN  IF op = "none"
           THEN /\ result' = Err(UnknownException)
                /\ todo' = sync_exception_current_tail(result', esr, far, elr)
                /\ pc' = "tail"
                /\ UNCHANGED <<memory_lock, tries>>
           ELSE IF ~try_lock(memory_lock)
           THEN UNCHANGED <<memory_lock, tries, result, todo, pc>>
           ELSE /\ tries' = tries + a.tries
                /\ IF a.acquired
                   THEN /\ memory_lock' = "handler"
                        /\ pc' = "tracker"
                        /\ UNCHANGED <<result, todo>>
                   ELSE /\ result' = a.res
                        /\ todo' = sync_exception_current_tail(result', esr, far, elr)
                        /\ pc' = "tail"
                        /\ UNCHANGED memory_lock
    /\ UNCHANGED <<memory_init, mapped, dirty, logger_enabled, handler, esr_raw, esr,
                   far, elr, tracker_calls, out, reboots>>
    /\ UNCHANGED <<descVars, esrVars, runVars>>

\* handle_exception up to the tracker call: the match, and for the two
\* handled classes try_lock and as_mut.
Dispatch ==
    /\ pc = "handle_exception"
    /\ LET op == handle_exception(esr)
           a  == AcquireMemory(memory_lock, memory_init)
       IN  IF op = "none"
           THEN /\ result' = Err(UnknownException)
                /\ todo' = sync_exception_current_tail(result', esr, far, elr)
                /\ pc' = "tail"
                /\ UNCHANGED <<memory_lock, tries>>
           ELSE /\ tries' = tries + a.tries
                /\ IF a.acquired
                   THEN /\ memory_lock' = "handler"
                        /\ pc' = "tracker"
                        /\ UNCHANGED <<result, todo>>
                   ELSE /\ result' = a.res
                        /\ todo' = sync_exception_current_tail(result', esr, far, elr)
                        /\ pc' = "tail"
                        /\ UNCHANGED memory_lock
    /\ UNCHANGED <<memory_init, mapped, dirty, logger_enabled, handler, esr_raw, esr,
                   far, elr, tracker_calls, out, reboots>>
    /\ UNCHANGED <<descVars, esrVars, runVars>>

\* Mutant of TrackerCall: a tracker that reports an error is taken out of
\* MEMORY.
TrackerCall_takes_tracker ==
    /\ pc = "tracker"
    /\ \E r \in {Ok(Unit)} \cup { Err(e) : e \in MemoryTrackerErrors } :
        LET op == handle_exception(esr)
        IN  /\ tracker_calls' = Append(tracker_calls, [op |-> op, addr |-> far, res |-> r])
            /\ mapped' = IF r.ok /\ op = "handle_mmio_fault"
                         THEN mapped \cup {page_4kb_of(far)} ELSE mapped
            /\ dirty' = IF r.ok /\ op = "handle_permission_fault"
                        THEN dirty \cup {page_4kb_of(far)} ELSE dirty
            /\ result' = IF r.ok THEN Ok(Unit) ELSE Err(HandleExceptionError_from(r.err))
            /\ memory_init' = r.ok
    /\ memory_lock' = "free"
    /\ todo' = sync_exception_current_tail(result', esr, far, elr)
    /\ pc' = "tail"
    /\ UNCHANGED <<logger_enabled, handler, esr_raw, esr, far, elr, tries,
                   out, reboots>>
    /\ UNCHANGED <<descVars, esrVars, runVars>>

\* Mutant of TrackerCall: the lock guard is leaked instead of dropped.
TrackerCall_keeps_lock ==
    /\ pc = "tracker"
    /\ \E r \in {Ok(Unit)} \cup { Err(e) : e \in MemoryTrackerErrors } :
        LET op == handle_exception(esr)
        IN  /\ tracker_calls' = Append(tracker_calls, [op |-> op, addr |-> far, res |-> r])
            /\ mapped' = IF r.ok /\ op = "handle_mmio_fault"
                         THEN mapped \cup {page_4kb_of(far)} ELSE mapped
            /\ dirty' = IF r.ok /\ op = "handle_permission_fault"
                        THEN dirty \cup {page_4kb_of(far)} ELSE dirty
            /\ result' = IF r.ok THEN Ok(Unit) ELSE Err(HandleExceptionError_from(r.err))
    /\ todo' = sync_exception_current_tail(result', esr, far, elr)
    /\ pc' = "tail"
    /\ UNCHANGED <<memory_lock, memory_init, logger_enabled, handler, esr_raw, esr, far,
                   elr, tries, out, reboots>>
    /\ UNCHANGED <<descVars, esrVars, runVars>>

\* memory.handle_mmio_fault(far) or memory.handle_permission_fault(far), the
\* conversion of its error, and the drop of the lock guard on return.
TrackerCall ==
    /\ pc = "tracker"
    /\ \E r \in {Ok(Unit)} \cup { Err(e) : e \in MemoryTrackerErrors } :
        LET op == handle_exception(esr)
        IN  /\ tracker_calls' = Append(tracker_calls, [op |-> op, addr |-> far, res |-> r])
            /\ mapped' = IF r.ok /\ op = "handle_mmio_fault"
                         THEN mapped \cup {page_4kb_of(far)} ELSE mapped
            /\ dirty' = IF r.ok /\ op = "handle_permission_fault"
                        THEN dirty \cup {page_4kb_of(far)} ELSE dirty
            /\ result' = IF r.ok THEN Ok(Unit) ELSE Err(HandleExceptionError_from(r.err))
    /\ memory_lock' = "free"
    /\ todo' = sync_exception_current_tail(result', esr, far, elr)
    /\ pc' = "tail"
    /\ UNCHANGED <<memory_init, logger_enabled, handler, esr_raw, esr, far, elr, tries,
                   out, reboots>>
    /\ UNCHANGED <<descVars, esrVars, runVars>>

\* ---- the seven fail-stop entry points -----------------------------------

FailStopEntry(h, raw, f, el) ==
    /\ pc = "idle"
    /\ handler' = h
    /\ esr_raw' = raw
    /\ esr' = NoEsr
    /\ far' = f
    /\ elr' = el
    /\ result' = NoResult
    /\ tries' = 0
    /\ tracker_calls' = <<>>
    /\ out' = <<>>
    /\ todo' = FailStopBody(h, raw)
    /\ pc' = "tail"
    /\ UNCHANGED <<memVars, logger_enabled, reboots>>
    /\ UNCHANGED <<descVars, esrVars, runVars>>

\* ---- statements shared by the handlers ----------------------------------

\* eprintln!: one line to the console.
ConsoleWrite ==
    /\ pc = "tail" /\ todo # <<>> /\ Head(todo).op = "eprintln"
    /\ out' = Append(out, Head(todo).line)
    /\ todo' = Tail(todo)
    /\ UNCHANGED <<memVars, logger_enabled, pc, handler, esr_raw, esr, far, elr, result,
                   tries, tracker_calls, reboots>>
    /\ UNCHANGED <<descVars, esrVars, runVars>>

\* reboot(): does not return; what follows it in the body is never executed.
Reboot ==
    /\ pc = "tail" /\ todo # <<>> /\ Head(todo).op = "reboot"
    /\ reboots' = reboots + 1
    /\ todo' = Tail(todo)
    /\ pc' = "rebooted"
    /\ UNCHANGED <<memVars, logger_enabled, handler, esr_raw, esr, far, elr, result,
                   tries, tracker_calls, out>>
    /\ UNCHANGED <<descVars, esrVars, runVars>>

\* Mutant of Return: the logger guard is forgotten instead of dropped.
Return_keeps_suppressed ==
    /\ pc = "tail" /\ todo = <<>>
    /\ pc' = "idle"
    /\ UNCHANGED <<memVars, logger_enabled, handler, esr_raw, esr, far, elr, result,
                   tries, tracker_calls, out, todo, reboots>>
    /\ UNCHANGED <<descVars, esrVars, runVars>>

\* The end of the handler's body: locals are dropped (for
\* sync_exception_current the logger guard) and the interrupted code resumes.
Return ==
    /\ pc = "tail" /\ todo = <<>>
    /\ pc' = "idle"
    /\ logger_enabled' = IF handler = "sync_exception_current" THEN TRUE ELSE logger_enabled
    /\ UNCHANGED <<memVars, handler, esr_raw, esr, far, elr, result, tries,
                   tracker_calls, out, todo, reboots>>
    /\ UNCHANGED <<descVars, esrVars, runVars>>

InitExc ==
    /\ memory_lock = "free"
    /\ memory_init = FALSE
    /\ mapped = {}
    /\ dirty = {}
    /\ logger_enabled = TRUE
    /\ pc = "idle"
    /\ handler = "none"
    /\ esr_raw = Usize(0)
    /\ esr = NoEsr
    /\ far = 0
    /\ elr = 0
    /\ result = NoResult
    /\ tries = 0
    /\ tracker_calls = <<>>
    /\ out = <<>>
    /\ todo = <<>>
    /\ reboots = 0

NextExc ==
    \/ NormalLock
    \/ NormalUnlock
    \/ MemoryInit
    \/ \E raw \in EntrySyndromes, f \in FaultAddresses, el \in ReturnAddresses :
          SyncEntry(raw, f, el)
    \/ Dispatch
    \/ TrackerCall
    \/ \E h \in FailStopHandlers, raw \in EntrySyndromes, f \in FaultAddresses,
          el \in ReturnAddresses : FailStopEntry(h, raw, f, el)
    \/ ConsoleWrite
    \/ Reboot
    \/ Return

(***************************************************************************)
(*                      THE RUN COMMAND OF THE VM TOOL                     *)
(***************************************************************************)

\* Results of command_run and wait_for_vm: the function that returned and
\* what it returned.
RunOk(fn)      == [fn |-> fn, ok |-> TRUE]
RunErr(fn, e)  == [fn |-> fn, ok |-> FALSE, err |-> e]
NoRunResult    == [fn |-> "none", ok |-> FALSE, err |-> "none"]

\* Mutant of wait_for_vm_body: the death recipient is dropped before the wait.
wait_for_vm_body_drops_first ==
    <<"registerCallback", "wait_for_death", "drop", "wait", "return">>

\* The statements of wait_for_vm, in order.
wait_for_vm_body ==
    <<"registerCallback", "wait_for_death", "wait", "drop", "return">>

\* AtomicFlag::wait returns once the flag is raised.
AtomicFlag_wait_returns(flag) == flag

\* Outcomes of a binder call to the service: it may fail whenever it is made,
\* and fails when the service is dead.
BinderOutcomes == IF service_alive THEN {TRUE, FALSE} ELSE {FALSE}

\* Context identifiers vm.getCid() may return.
Cids == {10, 11}

\* A line written to stdout by println!.
Println(text) == [text |-> text]

\* wait_for_vm's next statement.
AtStatement(st) == run_pc = "wait_for_vm" /\ run_todo # <<>> /\ Head(run_todo) = st

\* command_run up to the call of startVm: the configuration file is opened
\* and parsed and, unless daemonize is set, stdout is duplicated; each of
\* them may fail and make command_run return.
CommandRun ==
    /\ run_pc = "command_run"
    /\ \E outcome \in {"config", "duplicate_stdout", "ok"} :
          /\ outcome = "duplicate_stdout" => ~daemonize
          /\ IF outcome = "ok"
             THEN /\ run_pc' = "startVm"
                  /\ UNCHANGED run_result
             ELSE /\ run_result' = RunErr("command_run", outcome)
                  /\ run_pc' = "returned"
    /\ UNCHANGED <<daemonize, run_todo, vm_alive, service_alive, dead, raised_by,
                   callback_registered, recipient_linked, run_out>>
    /\ UNCHANGED callback_pc
    /\ UNCHANGED <<descVars, esrVars, excVars>>

\* let vm = virt_manager.startVm(&config, stdout.as_ref()).context(..)?
StartVm ==
    /\ run_pc = "startVm"
    /\ \E ok \in BinderOutcomes :
          IF ok
          THEN /\ vm_alive' = TRUE
               /\ run_pc' = "getCid"
               /\ UNCHANGED run_result
          ELSE /\ run_result' = RunErr("command_run", "startVm")
               /\ run_pc' = "returned"
               /\ UNCHANGED vm_alive
    /\ UNCHANGED <<daemonize, run_todo, service_alive, dead, raised_by,
                   callback_registered, recipient_linked, run_out>>
    /\ UNCHANGED callback_pc
    /\ UNCHANGED <<descVars, esrVars, excVars>>

\* let cid = vm.getCid().context(..)?; println!("Started VM ..."); and, when
\* daemonize is not set, the call of wait_for_vm(vm).  The VM's binder lives
\* in the service: it answers for a VM that died, not when the service died.
GetCid ==
    /\ run_pc = "getCid"
    /\ \E ok \in BinderOutcomes, cid \in Cids :
          IF ok
          THEN /\ run_out' = Append(run_out, [text |-> "Started VM", cid |-> cid])
               /\ IF daemonize
                  THEN /\ run_pc' = "debugHoldVmRef"
                       /\ UNCHANGED run_todo
                  ELSE /\ run_pc' = "wait_for_vm"
                       /\ run_todo' = wait_for_vm_body
               /\ UNCHANGED run_result
          ELSE /\ run_result' = RunErr("command_run", "getCid")
               /\ run_pc' = "returned"
               /\ UNCHANGED <<run_todo, run_out>>
    /\ UNCHANGED <<daemonize, vm_alive, service_alive, dead, raised_by,
                   callback_registered, recipient_linked>>
    /\ UNCHANGED callback_pc
    /\ UNCHANGED <<descVars, esrVars, excVars>>

\* virt_manager.debugHoldVmRef(&vm).context(..): command_run returns its
\* result.
DebugHoldVmRef ==
    /\ run_pc = "debugHoldVmRef"
    /\ \E ok \in BinderOutcomes :
          run_result' = IF ok THEN RunOk("command_run")
                        ELSE RunErr("command_run", "debugHoldVmRef")
    /\ run_pc' = "returned"
    /\ UNCHANGED <<daemonize, run_todo, vm_alive, service_alive, dead, raised_by,
                   callback_registered, recipient_linked, run_out>>
    /\ UNCHANGED callback_pc
    /\ UNCHANGED <<descVars, esrVars, excVars>>

\* vm.registerCallback(&callback)?
RegisterCallback ==
    /\ AtStatement("registerCallback")
    /\ \E ok \in BinderOutcomes :
          IF ok
          THEN /\ callback_registered' = TRUE
               /\ run_todo' = Tail(run_todo)
               /\ UNCHANGED <<run_pc, run_result>>
          ELSE /\ run_result' = RunErr("wait_for_vm", "registerCallback")
               /\ run_pc' = "returned"
               /\ run_todo' = <<>>
               /\ UNCHANGED callback_registered
    /\ UNCHANGED <<daemonize, vm_alive, service_alive, dead, raised_by, recipient_linked,
                   run_out>>
    /\ UNCHANGED callback_pc
    /\ UNCHANGED <<descVars, esrVars, excVars>>

\* let death_recipient = wait_for_death(&mut vm.as_binder(), dead.clone())?
WaitForDeath ==
    /\ AtStatement("wait_for_death")
    /\ \E ok \in BinderOutcomes :
          IF ok
          THEN /\ recipient_linked' = TRUE
               /\ run_todo' = Tail(run_todo)
               /\ UNCHANGED <<run_pc, run_result>>
          ELSE /\ run_result' = RunErr("wait_for_vm", "link_to_death")
               /\ run_pc' = "returned"
               /\ run_todo' = <<>>
               /\ UNCHANGED recipient_linked
    /\ UNCHANGED <<daemonize, vm_alive, service_alive, dead, raised_by, callback_registered,
                   run_out>>
    /\ UNCHANGED callback_pc
    /\ UNCHANGED <<descVars, esrVars, excVars>>

\* dead.wait(): blocks until the flag is raised.
FlagWait ==
    /\ AtStatement("wait")
    /\ AtomicFlag_wait_returns(dead)
    /\ run_todo' = Tail(run_todo)
    /\ UNCHANGED <<daemonize, run_pc, run_result, vm_alive, service_alive, dead, raised_by,
                   callback_registered, recipient_linked, run_out>>
    /\ UNCHANGED callback_pc
    /\ UNCHANGED <<descVars, esrVars, excVars>>

\* drop(death_recipient): the recipient is removed from the binder.
DropRecipient ==
    /\ AtStatement("drop")
    /\ recipient_linked' = FALSE
    /\ run_todo' = Tail(run_todo)
    /\ UNCHANGED <<daemonize, run_pc, run_result, vm_alive, service_alive, dead, raised_by,
                   callback_registered, run_out>>
    /\ UNCHANGED callback_pc
    /\ UNCHANGED <<descVars, esrVars, excVars>>

\* Ok(()): wait_for_vm returns and its locals are dropped.
WaitForVmReturn ==
    /\ AtStatement("return")
    /\ run_result' = RunOk("wait_for_vm")
    /\ run_pc' = "returned"
    /\ run_todo' = <<>>
    /\ recipient_linked' = FALSE
    /\ UNCHANGED <<daemonize, vm_alive, service_alive, dead, raised_by, callback_registered,
                   run_out>>
    /\ UNCHANGED callback_pc
    /\ UNCHANGED <<descVars, esrVars, excVars>>

\* The VM dies.
VmDies ==
    /\ vm_alive
    /\ vm_alive' = FALSE
    /\ UNCHANGED <<daemonize, run_pc, run_todo, run_result, service_alive, dead, raised_by,
                   callback_registered, recipient_linked, run_out>>
    /\ UNCHANGED callback_pc
    /\ UNCHANGED <<descVars, esrVars, excVars>>

\* VirtualizationService dies.
ServiceDies ==
    /\ run_pc # "idle" /\ service_alive
    /\ service_alive' = FALSE
    /\ UNCHANGED <<daemonize, run_pc, run_todo, run_result, vm_alive, dead, raised_by,
                   callback_registered, recipient_linked, run_out>>
    /\ UNCHANGED callback_pc
    /\ UNCHANGED <<descVars, esrVars, excVars>>

\* VirtualMachineCallback::onDied, called on a binder thread by the service
\* for a VM that died: println!("VM died").
OnDied ==
    /\ callback_registered /\ service_alive /\ ~vm_alive
    /\ callback_pc["onDied"] = "idle"
    /\ run_out' = Append(run_out, Println("VM died"))
    /\ callback_pc' = [callback_pc EXCEPT !["onDied"] = "raise"]
    /\ UNCHANGED <<daemonize, run_pc, run_todo, run_result, vm_alive, service_alive, dead,
                   raised_by, callback_registered, recipient_linked>>
    /\ UNCHANGED <<descVars, esrVars, excVars>>

\* onDied: self.dead.raise(); Ok(())
OnDiedRaise ==
    /\ callback_pc["onDied"] = "raise"
    /\ dead' = TRUE
    /\ raised_by' = raised_by \cup {"onDied"}
    /\ callback_pc' = [callback_pc EXCEPT !["onDied"] = "done"]
    /\ UNCHANGED <<daemonize, run_pc, run_todo, run_result, vm_alive, service_alive,
                   callback_registered, recipient_linked, run_out>>
    /\ UNCHANGED <<descVars, esrVars, excVars>>

\* The closure of the DeathRecipient, called on a binder thread when the
\* binder of the VM, which lives in the service, has died and the recipient
\* is still linked: println!("VirtualizationService died").
DeathRecipientFires ==
    /\ recipient_linked /\ ~service_alive
    /\ callback_pc["death_recipient"] = "idle"
    /\ run_out' = Append(run_out, Println("VirtualizationService died"))
    /\ callback_pc' = [callback_pc EXCEPT !["death_recipient"] = "raise"]
    /\ UNCHANGED <<daemonize, run_pc, run_todo, run_result, vm_alive, service_alive, dead,
                   raised_by, callback_registered, recipient_linked>>
    /\ UNCHANGED <<descVars, esrVars, excVars>>

\* The closure: dead.raise()
DeathRecipientRaise ==
    /\ callback_pc["death_recipient"] = "raise"
    /\ dead' = TRUE
    /\ raised_by' = raised_by \cup {"death_recipient"}
    /\ callback_pc' = [callback_pc EXCEPT !["death_recipient"] = "done"]
    /\ UNCHANGED <<daemonize, run_pc, run_todo, run_result, vm_alive, service_alive,
                   callback_registered, recipient_linked, run_out>>
    /\ UNCHANGED <<descVars, esrVars, excVars>>

\* The run command is not running.
InitRun ==
    /\ daemonize = FALSE
    /\ run_pc = "idle"
    /\ run_todo = <<>>
    /\ run_result = NoRunResult
    /\ vm_alive = FALSE
    /\ service_alive = TRUE
    /\ dead = FALSE
    /\ raised_by = {}
    /\ callback_registered = FALSE
    /\ recipient_linked = FALSE
    /\ run_out = <<>>
    /\ callback_pc = [c \in {"onDied", "death_recipient"} |-> "idle"]

\* command_run has been called, with or without daemonize.
InitRunInputs ==
    /\ daemonize \in BOOLEAN
    /\ run_pc = "command_run"
    /\ run_todo = <<>>
    /\ run_result = NoRunResult
    /\ vm_alive = FALSE
    /\ service_alive = TRUE
    /\ dead = FALSE
    /\ raised_by = {}
    /\ callback_registered = FALSE
    /\ recipient_linked = FALSE
    /\ run_out = <<>>
    /\ callback_pc = [c \in {"onDied", "death_recipient"} |-> "idle"]

NextRun ==
    \/ CommandRun
    \/ StartVm
    \/ GetCid
    \/ DebugHoldVmRef
    \/ RegisterCallback
    \/ WaitForDeath
    \/ FlagWait
    \/ DropRecipient
    \/ WaitForVmReturn
    \/ VmDies
    \/ ServiceDies
    \/ OnDied
    \/ OnDiedRaise
    \/ DeathRecipientFires
    \/ DeathRecipientRaise

(***************************************************************************)
(*                           SPECIFICATIONS                                *)
(***************************************************************************)

Init == InitDesc /\ InitEsr /\ InitExc /\ InitRun

\* As Init, with the classifier's input drawn from RawSyndromes.
InitClassify == InitDesc /\ InitEsrInputs /\ InitExc /\ InitRun

\* As Init, with from_vbmeta called on a blob drawn from Blobs.
InitVbmeta == InitVbmetaInputs /\ InitEsr /\ InitExc /\ InitRun

\* As Init, with command_run called.
InitCommandRun == InitDesc /\ InitEsr /\ InitExc /\ InitRunInputs

SpecDesc == Init /\ [][NextDesc]_vars
SpecVbmeta == InitVbmeta /\ [][NextVbmeta]_vars
SpecEsr  == InitClassify /\ [][NextEsr]_vars
SpecExc  == Init /\ [][NextExc]_vars
SpecRun  == InitCommandRun /\ [][NextRun]_vars

\* Fairness of SpecExcLive: a running handler is not preempted (handlers are
\* not reentrant and there is no scheduler), so each of its steps is taken
\* once it can be, and the tracker operation it calls returns.
HandlerProgress ==
    /\ WF_vars(Dispatch)
    /\ WF_vars(TrackerCall)
    /\ WF_vars(ConsoleWrite)
    /\ WF_vars(Reboot)
    /\ WF_vars(Return)

SpecExcLive == Init /\ [][NextExc]_vars /\ HandlerProgress


(***************************************************************************)
(*                     PROPERTIES: DESCRIPTOR STORE                        *)
(***************************************************************************)

\* Indices of the stored descriptors of partition p.
EntriesOf(store, p) == { i \in 1..Len(store) : store[i].partition_name = p }

\* The last step was a callback that reached Descriptors::push with a hash
\* record of a known partition.
CallbackDecoded ==
    /\ cb_user_data = "descriptors"
    /\ cb_record.tag = "hash"
    /\ cb_record.partition \in KnownIdentifiers

\* C1: after any sequence of descriptor callbacks applied to an initially
\* empty store, no two stored hash descriptors have the same partition_name:
\* the store holds at most one Hash record per known partition.
C1_PartitionNamesDistinct ==
    /\ \A i, j \in 1..Len(hash_descriptors) :
          i # j => hash_descriptors[i].partition_name # hash_descriptors[j].partition_name
    /\ \A p \in PartitionNames : Cardinality(EntriesOf(hash_descriptors, p)) <= 1

\* C1 witness: all three partitions are stored and a further record for one of
\* them has just been handed to the callback.
C1_Witness ==
    /\ Len(hash_descriptors) = 3
    /\ CallbackDecoded
    /\ ~cb_result.ok

\* C2: push_hash_descriptor called with a record whose partition_name is
\* already in the store returns Err(Io) and leaves the store as it was: same
\* entries, same order, same count, and find_hash_descriptor still returns the
\* descriptor stored first.
C2_DuplicateLeavesStore ==
    [][ ( /\ cb_user_data' = "descriptors"
          /\ cb_record'.tag = "hash"
          /\ cb_record'.partition \in KnownIdentifiers
          /\ HasPartition(hash_descriptors, PartitionName_try_from(cb_record'.partition).val) )
        => ( /\ cb_result' = Err("Io")
             /\ hash_descriptors' = hash_descriptors
             /\ num_hash_descriptor(hash_descriptors') = num_hash_descriptor(hash_descriptors)
             /\ \A p \in PartitionNames :
                   find_hash_descriptor(hash_descriptors', p)
                       = find_hash_descriptor(hash_descriptors, p) ) ]_vars

\* C2 witness: a duplicate with another digest was rejected and the lookup
\* returns the descriptor stored first.
C2_Witness ==
    /\ CallbackDecoded
    /\ cb_result = Err("Io")
    /\ LET p == PartitionName_try_from(cb_record.partition).val
       IN  /\ HasPartition(hash_descriptors, p)
           /\ find_hash_descriptor(hash_descriptors, p).val.digest # cb_record.digest

\* C3: a record whose partition identifier is outside the known set is always
\* rejected by the callback; the rejected callback leaves the store unchanged
\* (num_hash_descriptor keeps its value) and no lookup, for any partition,
\* returns anything it did not return before; every stored descriptor carries
\* a known partition name.
C3_UnknownPartitionRejected ==
    /\ [](\A i \in 1..Len(hash_descriptors) :
             hash_descriptors[i].partition_name \in PartitionNames)
    /\ [][ (cb_record'.tag # "none" /\ cb_record'.partition \notin KnownIdentifiers)
           => ( /\ ~cb_result'.ok
                /\ hash_descriptors' = hash_descriptors
                /\ num_hash_descriptor(hash_descriptors')
                       = num_hash_descriptor(hash_descriptors)
                /\ \A p \in PartitionNames :
                      find_hash_descriptor(hash_descriptors', p)
                          = find_hash_descriptor(hash_descriptors, p) ) ]_vars

\* C3 witness: a hash record of an unknown partition was handed to the
\* callback of a store with free capacity, and was rejected.
C3_Witness ==
    /\ cb_user_data = "descriptors"
    /\ cb_record.tag = "hash"
    /\ cb_record.partition \in UnknownIdentifiers
    /\ ~cb_result.ok
    /\ Len(hash_descriptors) = 2

(***************************************************************************)
(*                        PROPERTIES: CLASSIFIER                           *)
(***************************************************************************)

\* Bit k of the 16-bit limb n.
BitAt(n, k) == (n \div (2 ^ k)) % 2

\* The positions (0 = least significant) of the bits set in a 64-bit word.
BitsOf(w) == { b \in 0..63 : BitAt(w[4 - (b \div 16)], b % 16) = 1 }

\* The bits set in 0x96000000: 31, 28, 26, 25.
ClassBits == {25, 26, 28, 31}

\* C4: Esr::from(raw) is defined for every raw value and is the first matching
\* case of: SyncExternalAbort if raw = 0x96000010; TranslationFault if raw
\* with bits 0x143 cleared is 0x96000004; PermissionFault if raw with bits
\* 0x103 cleared is 0x9600004C; otherwise Unknown(raw) carrying raw unchanged.
\* In particular 0x96000010, 0x96000004, 0x9600004C and 0 classify as
\* SyncExternalAbort, TranslationFault, PermissionFault and Unknown(0).
C4_ClassifyCases ==
    classify_out # [tag |-> "none"] =>
        /\ classify_out =
              IF BitsOf(classify_in) = ClassBits \cup {4}
              THEN DataAbortSyncExternalAbort
              ELSE IF BitsOf(classify_in) \ {0, 1, 6, 8} = ClassBits \cup {2}
              THEN DataAbortTranslationFault
              ELSE IF BitsOf(classify_in) \ {0, 1, 8} = ClassBits \cup {2, 3, 6}
              THEN DataAbortPermissionFault
              ELSE [tag |-> "Unknown", v |-> classify_in]
        /\ classify_in = <<0, 0, \H9600, \H0010>>
              => classify_out.tag = "DataAbortSyncExternalAbort"
        /\ classify_in = <<0, 0, \H9600, \H0004>>
              => classify_out.tag = "DataAbortTranslationFault"
        /\ classify_in = <<0, 0, \H9600, \H004C>>
              => classify_out.tag = "DataAbortPermissionFault"
        /\ classify_in = <<0, 0, 0, 0>>
              => classify_out = [tag |-> "Unknown", v |-> <<0, 0, 0, 0>>]

\* C4 witness: a permission-fault syndrome with all three ignored ISS bits set
\* has been classified.
C4_Witness ==
    /\ classify_in = <<0, 0, \H9600, \H014F>>
    /\ classify_out = DataAbortPermissionFault


(***************************************************************************)
(*               PROPERTIES: DISPATCHER AND ENTRY POINTS                   *)
(***************************************************************************)

\* sync_exception_current is the handler entered last.
InSync == handler = "sync_exception_current"

\* Its call of handle_exception has returned.
Dispatched == InSync /\ pc \in {"tail", "rebooted", "idle"}

\* The fault is of one of the two classes the dispatcher services.
Serviced == esr \in {DataAbortTranslationFault, DataAbortPermissionFault}

\* C5: handle_exception called with SyncExternalAbort or Unknown(v) returns
\* UnknownException for every fault address and every state of MEMORY (lock
\* free or held, initialized or not); it never returns Ok for these classes,
\* and reaches neither the lock nor the tracker.
C5_UnservicedIsUnknownException ==
    (InSync /\ esr.tag \in {"DataAbortSyncExternalAbort", "Unknown"}) =>
        /\ pc # "tracker"
        /\ tries = 0
        /\ tracker_calls = <<>>
        /\ memory_lock # "handler"
        /\ pc # "handle_exception" => result = Err(UnknownException)

\* C5 witness: an external abort was dispatched while MEMORY was initialized
\* and its lock free, and UnknownException came back.
C5_Witness ==
    /\ InSync /\ pc = "tail"
    /\ esr = DataAbortSyncExternalAbort
    /\ memory_init /\ memory_lock = "free"
    /\ result = Err(UnknownException)

\* C6: handle_exception(TranslationFault, far) with MEMORY's lock free and
\* MEMORY uninitialized returns PageTableNotInitialized for every far, without
\* calling a tracker operation and without waiting; the same holds for
\* PermissionFault.
C6_UninitializedIsNotInitialized ==
    (InSync /\ Serviced /\ memory_lock = "free" /\ ~memory_init) =>
        /\ pc # "tracker"
        /\ tracker_calls = <<>>
        /\ pc = "handle_exception" => ENABLED Dispatch
        /\ pc # "handle_exception" =>
              /\ result = Err(PageTableNotInitialized)
              /\ tries = 1

\* C6 witness: a translation fault was dispatched against an uninitialized
\* MEMORY whose lock was free.
C6_Witness ==
    /\ InSync /\ pc = "tail"
    /\ esr = DataAbortTranslationFault
    /\ memory_lock = "free" /\ ~memory_init
    /\ result = Err(PageTableNotInitialized)

\* C7: when the interrupted execution holds MEMORY's lock and a translation
\* or permission fault is dispatched, the dispatcher makes exactly one
\* try_lock attempt and returns PageTableUnavailable; the handler is never
\* waiting for the lock: while the interrupted code holds it, the handler
\* always has a step to take until it has rebooted.
C7_ContendedIsUnavailable ==
    (InSync /\ Serviced /\ memory_lock = "interrupted" /\ pc # "idle") =>
        /\ pc # "tracker"
        /\ tracker_calls = <<>>
        /\ pc = "handle_exception" => (tries = 0 /\ ENABLED Dispatch)
        /\ pc # "handle_exception" =>
              /\ result = Err(PageTableUnavailable)
              /\ tries = 1
        /\ pc # "rebooted" => ENABLED (Dispatch \/ ConsoleWrite \/ Reboot)

\* C7 witness: a permission fault was dispatched while the interrupted code
\* held the lock of an initialized MEMORY.
C7_Witness ==
    /\ InSync /\ pc = "tail"
    /\ esr = DataAbortPermissionFault
    /\ memory_lock = "interrupted" /\ memory_init
    /\ result = Err(PageTableUnavailable)
    /\ tries = 1

\* The tracker operation called by the handler reported success.
TrackerSucceeded ==
    /\ Len(tracker_calls) = 1
    /\ tracker_calls[1].res.ok

\* C8: if sync_exception_current is entered with a syndrome classified
\* TranslationFault (such as 0x96000004) or PermissionFault, the lock is free,
\* the tracker is initialized and its fault operation reports success, then
\* the handler returns normally, writes nothing to the console and reboot is
\* never invoked.
C8_SuccessReturns ==
    (InSync /\ Serviced /\ TrackerSucceeded) =>
        /\ pc \in {"tail", "idle"}
        /\ result = Ok(Unit)
        /\ out = <<>>
        /\ todo = <<>>
        /\ reboots = 0
        /\ pc = "tail" => (ENABLED Return /\ ~ENABLED Reboot /\ ~ENABLED ConsoleWrite)

\* C8 witness: the handler entered with syndrome 0x96000004 has returned to
\* the interrupted code after a successful handle_mmio_fault.
C8_Witness ==
    /\ InSync /\ pc = "idle"
    /\ esr_raw = <<0, 0, \H9600, \H0004>>
    /\ TrackerSucceeded
    /\ tracker_calls[1].op = "handle_mmio_fault"
    /\ out = <<>> /\ reboots = 0

\* handle_exception returned an error to sync_exception_current.
DispatchFailed == Dispatched /\ ~result.ok

\* The console holds exactly the diagnostic context of the failed fault.
DiagnosticsWritten ==
    /\ Len(out) = 3
    /\ out[1] = [text |-> "sync_exception_current"]
    /\ out[2] = HandleExceptionError_fmt(result.err)
    /\ out[3] = [esr |-> Esr_fmt(esr), far |-> far, elr |-> elr]

\* C9: if dispatch fails in sync_exception_current (the tracker reports a
\* failure, or any other HandleExceptionError), the handler invokes reboot
\* exactly once and never returns to the faulting code; when the fault is not
\* the UART case, the diagnostic context (handler identity, error, syndrome,
\* fault address, return address) is written before the reboot call, never
\* after it.
C9_FailureReboots ==
    /\ reboots <= 1
    /\ (InSync /\ pc = "idle") => result.ok
    /\ DispatchFailed =>
          /\ pc \in {"tail", "rebooted"}
          /\ pc = "tail" =>
                /\ reboots = 0
                /\ todo # <<>>
                /\ todo[Len(todo)] = RebootCall
                /\ \A i \in 1..(Len(todo) - 1) : todo[i].op = "eprintln"
                /\ ~ENABLED Return
          /\ pc = "rebooted" =>
                /\ reboots = 1
                /\ todo = <<>>
                /\ ~ENABLED NextExc
                /\ ~handling_uart_exception(esr, far) => DiagnosticsWritten

\* C9 witness: the tracker reported a failure, the three diagnostic lines were
\* written and reboot was invoked.
C9_Witness ==
    /\ InSync /\ pc = "rebooted"
    /\ result = Err(InternalError("TrackerErrorA"))
    /\ DiagnosticsWritten
    /\ reboots = 1

\* C10: each of irq_current, fiq_current, serr_current, sync_lower, irq_lower,
\* fiq_lower and serr_lower, on every entry and whatever the syndrome, memory
\* state or lock state, writes its identity and then invokes reboot; none of
\* them attempts recovery, touches MEMORY or the tracker, or returns to the
\* interrupted code.
C10_FailStopHandlers ==
    /\ [](handler \in FailStopHandlers =>
            /\ pc \in {"tail", "rebooted"}
            /\ tries = 0
            /\ tracker_calls = <<>>
            /\ memory_lock # "handler"
            /\ pc = "tail" =>
                  /\ reboots = 0
                  /\ todo # <<>>
                  /\ todo[Len(todo)] = RebootCall
                  /\ out = <<>> => Head(todo) = Eprintln([text |-> handler])
                  /\ ~ENABLED Return
            /\ out # <<>> => out[1] = [text |-> handler]
            /\ pc = "rebooted" =>
                  /\ reboots = 1
                  /\ out # <<>>
                  /\ todo = <<>>)
    /\ [][handler' \in FailStopHandlers => memVars' = memVars]_vars

\* C10 witness: serr_lower, entered while the interrupted code held the lock
\* of an initialized MEMORY, has written its identity and the syndrome and
\* has rebooted.
C10_Witness ==
    /\ handler = "serr_lower" /\ pc = "rebooted"
    /\ memory_lock = "interrupted" /\ memory_init
    /\ Len(out) = 2 /\ out[1] = [text |-> "serr_lower"]
    /\ reboots = 1


\* C11: over all executions of the eight entry points, the only execution that
\* ends without reboot is a sync_exception_current whose dispatch returned Ok;
\* every execution that has written a diagnostic line is on its way to reboot
\* (its remaining statements end with the reboot call and it cannot return) or
\* has rebooted: there is no log-without-reboot outcome.
C11_OnlySuccessEscapesReboot ==
    /\ (pc = "idle" /\ handler # "none") =>
          /\ InSync
          /\ result.ok
          /\ out = <<>>
          /\ reboots = 0
    /\ out # <<>> =>
          /\ pc \in {"tail", "rebooted"}
          /\ pc = "tail" =>
                /\ todo # <<>>
                /\ todo[Len(todo)] = RebootCall
                /\ ~ENABLED Return
                /\ ENABLED (ConsoleWrite \/ Reboot)
    /\ pc = "rebooted" <=> reboots = 1

\* C11 witness: a contended translation fault was reported on the console and
\* the platform was rebooted.
C11_Witness ==
    /\ InSync /\ pc = "rebooted"
    /\ result = Err(PageTableUnavailable)
    /\ Len(out) = 3
    /\ reboots = 1

\* The fault address lies in the 4 KiB page that holds the UART.
OnUartPage(f) == f \div 4096 = BASE_ADDRESS \div 4096

\* C12: on dispatch failure in sync_exception_current the diagnostic lines are
\* skipped exactly when the classified fault is SyncExternalAbort and the
\* 4 KiB page of the fault address is the UART's page; in every other failure
\* case the handler identity, error, syndrome, fault address and return
\* address are written; reboot is invoked in both cases.
C12_SkipExactlyForUartAbort ==
    (DispatchFailed /\ pc = "rebooted") =>
        /\ reboots = 1
        /\ IF esr.tag = "DataAbortSyncExternalAbort" /\ OnUartPage(far)
           THEN out = <<>>
           ELSE DiagnosticsWritten

\* C12 witness: an external abort on the last word of the UART's page ended
\* in reboot with nothing written.
C12_Witness ==
    /\ InSync /\ pc = "rebooted"
    /\ esr = DataAbortSyncExternalAbort
    /\ far = \H0FFC
    /\ out = <<>>
    /\ reboots = 1

\* C13 as stated: whatever the fault class and the error, a failed fault whose
\* address lies on the UART's page is not logged, and every failed fault on
\* another page is logged.
C13_Original ==
    (DispatchFailed /\ pc = "rebooted") =>
        (out = <<>> <=> OnUartPage(far))

\* C13 as amended: a failed fault is left unlogged exactly when it is
\* classified SyncExternalAbort and its address lies on the UART's page, hence
\* only with UnknownException: such a fault writes nothing before the reboot;
\* a fault that failed with PageTableUnavailable, PageTableNotInitialized or
\* InternalError is logged also when its address lies on the UART's page, and
\* every failed fault on another page is logged.
C13_SuppressedOnlyForExternalAbort ==
    (DispatchFailed /\ pc = "rebooted") =>
        /\ (esr.tag = "DataAbortSyncExternalAbort" /\ OnUartPage(far)) => out = <<>>
        /\ result.err.kind \in
              {"PageTableUnavailable", "PageTableNotInitialized", "InternalError"}
              => DiagnosticsWritten
        /\ ~OnUartPage(far) => DiagnosticsWritten
        /\ out = <<>> =>
              /\ result = Err(UnknownException)
              /\ esr.tag = "DataAbortSyncExternalAbort"
              /\ OnUartPage(far)
        /\ (esr.tag = "Unknown" /\ OnUartPage(far)) => DiagnosticsWritten

\* C13 witness: a translation fault at the UART's own address failed with
\* PageTableNotInitialized and was logged before the reboot.
C13_Witness ==
    /\ InSync /\ pc = "rebooted"
    /\ esr = DataAbortTranslationFault
    /\ far = BASE_ADDRESS
    /\ result = Err(PageTableNotInitialized)
    /\ DiagnosticsWritten

\* C14 as stated: the suppression of the log sink taken at entry of
\* sync_exception_current is released on every exit path: after the normal
\* return and also on the failure path that ends in the reboot call.
C14_Original ==
    (InSync /\ pc \in {"idle", "rebooted"}) => logger_enabled

\* C14 as amended: the suppression taken at entry of sync_exception_current is
\* in force for the whole of the handling and is released on the normal return
\* after a successful dispatch; on the failure path it is still in force when
\* reboot is invoked and, reboot never returning, is never released.
C14_ReleasedOnReturnOnly ==
    /\ (InSync /\ pc \in {"handle_exception", "tracker", "tail"}) => ~logger_enabled
    /\ (InSync /\ pc = "idle") => (logger_enabled /\ result.ok)
    /\ (InSync /\ pc = "rebooted") => (~logger_enabled /\ ~result.ok)
    /\ pc = "idle" => logger_enabled

\* C14 witness: sync_exception_current has invoked reboot after a failed
\* dispatch and the log sink is still suppressed.
C14_Witness ==
    /\ InSync /\ pc = "rebooted"
    /\ ~result.ok
    /\ reboots = 1
    /\ ~logger_enabled

\* C20: with MEMORY's lock free and the tracker initialized, handle_exception
\* calls exactly one tracker operation, exactly once, with the fault address:
\* handle_mmio_fault for a TranslationFault and handle_permission_fault for a
\* PermissionFault, never the other one; it returns Ok exactly when that
\* operation succeeded and otherwise InternalError wrapping the tracker's
\* error unchanged.  The lock is held during the call and free after it.
C20_OneTrackerCall ==
    /\ (InSync /\ pc = "tracker") =>
          /\ Serviced
          /\ memory_init
          /\ memory_lock = "handler"
          /\ tries = 1
          /\ tracker_calls = <<>>
    /\ (InSync /\ Serviced /\ memory_init /\ memory_lock # "interrupted"
               /\ pc \in {"tail", "rebooted"}) =>
          /\ memory_lock = "free"
          /\ Len(tracker_calls) = 1
          /\ tracker_calls[1].addr = far
          /\ tracker_calls[1].op =
                (IF esr.tag = "DataAbortTranslationFault"
                 THEN "handle_mmio_fault" ELSE "handle_permission_fault")
          /\ result.ok <=> tracker_calls[1].res.ok
          /\ result.ok => result = [ok |-> TRUE, val |-> "unit"]
          /\ ~result.ok =>
                result.err = [kind |-> "InternalError", inner |-> tracker_calls[1].res.err]
    /\ Len(tracker_calls) <= 1

\* C20 witness: a permission fault reached handle_permission_fault, which
\* failed, and the tracker's error came back wrapped in InternalError.
C20_Witness ==
    /\ InSync /\ pc = "tail"
    /\ esr = DataAbortPermissionFault
    /\ Len(tracker_calls) = 1
    /\ tracker_calls[1] = [op |-> "handle_permission_fault", addr |-> far,
                           res |-> Err("TrackerErrorB")]
    /\ result = Err(InternalError("TrackerErrorB"))

(***************************************************************************)
(*                       PROPERTIES: from_vbmeta                           *)
(***************************************************************************)

\* from_vbmeta has returned.
Returned == vb_state = "returned"

\* The records of the blob handed to from_vbmeta.
Records == vb_blob.records

\* Some callback of this from_vbmeta call has rejected a record.
CallbackRejected == cb_record # NoRecord /\ ~cb_result.ok

\* Record i is one the callback rejects when the records before it were
\* accepted: not a Hash record, an unknown partition, or a partition already
\* seen.
Rejectable(recs, i) ==
    \/ recs[i].tag # "hash"
    \/ recs[i].partition \notin KnownIdentifiers
    \/ \E j \in 1..(i - 1) : recs[j].partition = recs[i].partition

\* Index of the first record the callback rejects, 0 when there is none.
FirstRejected(recs) ==
    IF \E i \in 1..Len(recs) : Rejectable(recs, i)
    THEN CHOOSE i \in 1..Len(recs) :
            /\ Rejectable(recs, i)
            /\ \A j \in 1..(i - 1) : ~Rejectable(recs, j)
    ELSE 0

\* C15: from_vbmeta returns Io when the blob pointer is null, without starting
\* the enumeration and without invoking the callback; it returns
\* InvalidMetadata when the enumeration reports failure (a callback rejected a
\* record); it returns Ok, with the store, only when the enumeration completed
\* with every callback accepted; it produces no other error.
C15_FromVbmetaResults ==
    /\ vb_blob.null =>
          /\ vb_state \in {"called", "returned"}
          /\ cb_record = NoRecord
          /\ hash_descriptors = <<>>
          /\ Returned => vb_result = Err("Io")
    /\ (Returned /\ ~vb_blob.null) =>
          /\ vb_result # Err("Io")
          /\ vb_result = Err("InvalidMetadata") <=> CallbackRejected
          /\ vb_result.ok <=> (~CallbackRejected /\ vb_pos = Len(Records) + 1)
          /\ vb_result.ok => vb_result.val = hash_descriptors
    /\ Returned => (vb_result.ok \/ vb_result.err \in {"Io", "InvalidMetadata"})

\* C15 witness: from_vbmeta has returned Io for a null blob.
C15_Witness ==
    /\ Returned
    /\ vb_blob.null
    /\ vb_result = Err("Io")
    /\ cb_record = NoRecord

\* C16: if the metadata holds a descriptor that is not of the Hash kind, the
\* callback fails on that descriptor when it is handed to it, and from_vbmeta
\* returns InvalidMetadata instead of a store, whatever Hash descriptors
\* precede or follow it.
C16_NonHashRejected ==
    /\ cb_record.tag \notin {"none", "hash"} =>
          /\ ~cb_result.ok
          /\ vb_state \in {"foreach_false", "returned"}
    /\ (Returned /\ ~vb_blob.null /\ \E i \in 1..Len(Records) : Records[i].tag # "hash")
          => vb_result = Err("InvalidMetadata")
    /\ \A i \in 1..Len(Records) :
          (Returned /\ Records[i].tag # "hash" /\ FirstRejected(Records) = i)
              => (cb_record = Records[i] /\ ~cb_result.ok)

\* C16 witness: a property descriptor between two acceptable hash descriptors
\* made from_vbmeta fail.
C16_Witness ==
    /\ Returned
    /\ Len(Records) = 3
    /\ Records[1].tag = "hash" /\ Records[1].partition = "boot"
    /\ Records[2].tag = "property"
    /\ Records[3].tag = "hash" /\ Records[3].partition = "initrd_normal"
    /\ cb_record = Records[2]
    /\ vb_result = Err("InvalidMetadata")

\* The partition a known identifier names.
NameOf(id) ==
    [boot |-> "Kernel", initrd_normal |-> "InitrdNormal", initrd_debug |-> "InitrdDebug"][id]

\* Every record is a Hash record of a known partition and the partitions are
\* pairwise distinct.
AllWellFormed(recs) ==
    /\ \A i \in 1..Len(recs) :
          recs[i].tag = "hash" /\ recs[i].partition \in KnownIdentifiers
    /\ \A i, j \in 1..Len(recs) : i # j => recs[i].partition # recs[j].partition

\* C17: if every enumerated record is a Hash record of a known partition and
\* the partitions are pairwise distinct, from_vbmeta returns Ok with a store
\* whose num_hash_descriptor() is the number of records, for which
\* find_hash_descriptor(p) succeeds for each record's partition p, returning
\* the digest, size and flags of that record, and fails with InvalidMetadata
\* for every known partition without a record.
C17_WellFormedBlobStored ==
    (Returned /\ ~vb_blob.null /\ AllWellFormed(Records)) =>
        /\ vb_result.ok
        /\ num_hash_descriptor(vb_result.val) = Len(Records)
        /\ \A i \in 1..Len(Records) :
              LET f == find_hash_descriptor(vb_result.val, NameOf(Records[i].partition))
              IN  /\ f.ok
                  /\ f.val.partition_name = NameOf(Records[i].partition)
                  /\ f.val.digest = Records[i].digest
                  /\ f.val.image_size = Records[i].image_size
                  /\ f.val.flags = Records[i].flags
        /\ \A p \in PartitionNames :
              (\A i \in 1..Len(Records) : NameOf(Records[i].partition) # p)
                  => find_hash_descriptor(vb_result.val, p) = Err("InvalidMetadata")

\* C17 witness: a store built from three records, one for each known
\* partition, the one for "boot" coming second with the second digest.
C17_Witness ==
    /\ Returned
    /\ Len(Records) = 3
    /\ AllWellFormed(Records)
    /\ Records[2].partition = "boot" /\ Records[2].digest = "digestB"
    /\ vb_result.ok
    /\ num_hash_descriptor(vb_result.val) = 3

\* C18: the enumeration stops at the first rejected record: once a callback
\* has failed, no later record of the blob is handed to the callback or added
\* to the store, and from_vbmeta returns Err, so that the caller never gets a
\* partially populated store.
C18_StopsAtFirstRejected ==
    LET first == FirstRejected(Records)
    IN  (~vb_blob.null /\ first # 0) =>
            /\ vb_pos <= first
            /\ Len(hash_descriptors) <= first - 1
            /\ CallbackRejected =>
                  /\ vb_state \in {"foreach_false", "returned"}
                  /\ vb_pos = first
                  /\ cb_record = Records[first]
                  /\ Len(hash_descriptors) = first - 1
            /\ vb_state \in {"foreach_false", "returned"} => CallbackRejected
            /\ Returned => ~vb_result.ok

\* C18 witness: the second of four records was rejected, one descriptor is in
\* the local store, two records were never visited and from_vbmeta returned
\* an error.
C18_Witness ==
    /\ Returned
    /\ Len(Records) = 4
    /\ FirstRejected(Records) = 2
    /\ ~Rejectable(Records, 3)
    /\ cb_record = Records[2]
    /\ Len(hash_descriptors) = 1
    /\ ~vb_result.ok

\* C19: find_hash_descriptor(p) returns InvalidMetadata if and only if no
\* stored descriptor has partition_name p, and the descriptor of that name
\* otherwise; on an empty store it reports not-found for every partition.
C19_FindReportsMissing ==
    \A p \in PartitionNames :
        LET f == find_hash_descriptor(hash_descriptors, p)
        IN  /\ f = [ok |-> FALSE, err |-> "InvalidMetadata"]
                <=> (\A i \in 1..Len(hash_descriptors) :
                        hash_descriptors[i].partition_name # p)
            /\ ~f.ok => f.err = "InvalidMetadata"
            /\ f.ok => f.val.partition_name = p
            /\ hash_descriptors = <<>> => ~f.ok

\* C19 witness: two partitions are stored after an accepted callback; the
\* lookup of the third reports InvalidMetadata.
C19_Witness ==
    /\ Len(hash_descriptors) = 2
    /\ CallbackDecoded /\ cb_result.ok
    /\ \E p \in PartitionNames :
          find_hash_descriptor(hash_descriptors, p) = Err("InvalidMetadata")
    /\ \E p \in PartitionNames : find_hash_descriptor(hash_descriptors, p).ok


(***************************************************************************)
(*              PROPERTIES: FRAME, TERMINATION, LOCK DISCIPLINE            *)
(***************************************************************************)

\* handle_exception is running: it was called and has not returned.
InHandleException == pc \in {"handle_exception", "tracker"}

\* C21: handle_exception leaves the shared paging state unchanged unless the
\* fault is a TranslationFault or PermissionFault that reached the tracker:
\* for SyncExternalAbort and Unknown it neither acquires the lock nor calls
\* the tracker, when it returns PageTableUnavailable or
\* PageTableNotInitialized the tracker state is unchanged, and no step of
\* handle_exception writes to the console.
C21_HandleExceptionFrame ==
    [][ /\ (mapped' # mapped \/ dirty' # dirty) =>
              /\ pc = "tracker" /\ InSync /\ Serviced
              /\ memory_lock = "handler"
              /\ Len(tracker_calls') = 1
        /\ InHandleException =>
              /\ out = <<>> /\ out' = out
              /\ memory_init' = memory_init
              /\ ~Serviced =>
                    /\ memVars' = memVars
                    /\ tries' = 0
                    /\ tracker_calls' = <<>>
                    /\ pc' = "tail"
              /\ result' \in {Err(PageTableUnavailable), Err(PageTableNotInitialized)} =>
                    /\ memVars' = memVars
                    /\ tracker_calls' = <<>>
      ]_vars

\* C21 witness: an unknown syndrome was dispatched while MEMORY was
\* initialized, its lock free and pages mapped and flagged dirty by earlier
\* faults; no tracker operation was called.
C21_Witness ==
    /\ InSync /\ pc = "tail"
    /\ esr.tag = "Unknown"
    /\ memory_init /\ memory_lock = "free"
    /\ mapped # {} /\ dirty # {}
    /\ result = Err(UnknownException)
    /\ tracker_calls = <<>>

\* A handler is running: entered, and neither returned nor rebooted.
Running == pc \notin {"idle", "rebooted"}

\* The largest number of steps the running handler has left.
StepsLeft ==
    CASE pc = "handle_exception" -> 7
      [] pc = "tracker"          -> 6
      [] pc = "tail"             -> Len(todo) + 1
      [] OTHER                   -> 0

\* C22: every entry into one of the eight handlers, provided the tracker
\* operation it may call returns, ends after finitely many steps in a normal
\* return or in the reboot call: every step of a running handler lowers the
\* number of steps it has left, a running handler always has a step to take
\* (it waits for nobody), and it eventually returns or reboots.
C22_HandlersTerminate ==
    /\ [][Running => (StepsLeft' < StepsLeft /\ tries' <= 1)]_vars
    /\ [](Running => ENABLED (Dispatch \/ TrackerCall \/ ConsoleWrite \/ Reboot \/ Return))
    /\ (Running ~> ~Running)

\* C22 witness: a permission fault taken while the interrupted code holds the
\* lock has ended in the reboot call after three lines of diagnostics.
C22_Witness ==
    /\ InSync /\ pc = "rebooted"
    /\ esr = DataAbortPermissionFault
    /\ memory_lock = "interrupted"
    /\ tries = 1
    /\ Len(out) = 3
    /\ reboots = 1


\* from_vbmeta has returned a store to its caller.
StoreReturned == vb_state = "returned" /\ vb_result.ok

\* C23: once from_vbmeta has returned a store, the store never changes:
\* find_hash_descriptor and num_hash_descriptor leave its contents, order and
\* count unchanged, so that a lookup of a partition returns what every earlier
\* lookup of that partition returned, and what the store holds.
C23_ReturnedStoreImmutable ==
    /\ [][StoreReturned =>
            /\ vb_result' = vb_result
            /\ \A p \in PartitionNames :
                  (found[p].n > 0 /\ found'[p].n > found[p].n)
                      => found'[p].res = found[p].res
            /\ (counted.n > 0 /\ counted'.n > counted.n) => counted'.len = counted.len
         ]_vars
    /\ [](StoreReturned =>
            /\ \A p \in PartitionNames :
                  found[p].n > 0 => found[p].res = find_hash_descriptor(vb_result.val, p)
            /\ counted.n > 0 => counted.len = Len(vb_result.val))

\* C23 witness: on a store of two descriptors the partition "boot" was looked
\* up twice and found, another partition was looked up twice and not found,
\* and the descriptors were counted twice.
C23_Witness ==
    /\ StoreReturned
    /\ Len(vb_result.val) = 2
    /\ found["Kernel"].n = 2 /\ found["Kernel"].res.ok
    /\ \E p \in PartitionNames : found[p].n = 2 /\ ~found[p].res.ok
    /\ counted = [n |-> 2, len |-> 2]


\* C24: no step of an exception handler changes whether MEMORY is
\* Uninitialized or Initialized: once Initialized it stays Initialized across
\* any sequence of exceptions, and a handler entered while it is Uninitialized
\* leaves it Uninitialized.
C24_HandlersKeepInitState ==
    [][ /\ (Running \/ pc' # "idle") => memory_init' = memory_init
        /\ memory_init => memory_init'
      ]_vars

\* C24 witness: a second exception has ended in reboot after the tracker
\* reported an error; MEMORY is still initialized and holds the page mapped
\* while the first exception was handled.
C24_Witness ==
    /\ InSync /\ pc = "rebooted"
    /\ memory_init
    /\ mapped # {}
    /\ Len(tracker_calls) = 1
    /\ ~tracker_calls[1].res.ok
    /\ tracker_calls[1].op = "handle_permission_fault"

\* The typed hash descriptors a store can hold.
HashDescriptors ==
    [partition_name : PartitionNames, digest : Digests,
     image_size : ImageSizes, flags : Flags]

\* Positions of a store holding something else than a hash descriptor.
OtherDescriptorsIn(store) == { i \in 1..Len(store) : store[i] \notin HashDescriptors }

\* C25: a Descriptors store built by from_vbmeta holds at most one
\* HashDescriptor per known partition and at most one PropertyDescriptor (it
\* holds none: a store has hash descriptors only).
C25_AtMostOnePerPartition ==
    StoreReturned =>
        /\ \A p \in PartitionNames : Cardinality(EntriesOf(vb_result.val, p)) <= 1
        /\ Cardinality(OtherDescriptorsIn(vb_result.val)) <= 1
        /\ OtherDescriptorsIn(vb_result.val) = {}
        /\ Len(vb_result.val) <= Cardinality(PartitionNames)

\* C25 witness: from_vbmeta returned a store with one descriptor for each of
\* the known partitions, "initrd_debug" first.
C25_Witness ==
    /\ StoreReturned
    /\ Len(vb_result.val) = 3
    /\ vb_result.val[1].partition_name = "InitrdDebug"
    /\ \A p \in PartitionNames : Cardinality(EntriesOf(vb_result.val, p)) = 1


(***************************************************************************)
(*                      PROPERTIES: THE RUN COMMAND                        *)
(***************************************************************************)

\* wait_for_vm was called and has returned.
WaitForVmReturned == run_pc = "returned" /\ run_result.fn = "wait_for_vm"

\* wait_for_vm is blocked in, or about to call, dead.wait().
AtWait == AtStatement("wait")

\* C26 as stated: wait_for_vm returns only after the dead flag has been
\* raised; it never returns while both the VM and the service are alive.
C26_Original ==
    WaitForVmReturned => (dead /\ (~vm_alive \/ ~service_alive))

\* C26: wait_for_vm returns Ok only after the dead flag has been raised by
\* the VM's onDied callback or by the death recipient, hence never with Ok
\* while both the VM and the service are alive; it returns Err, without
\* waiting, exactly when registerCallback or link_to_death failed; and the
\* death recipient stays linked until the wait on the flag has finished.
C26_ReturnsOkOnlyAfterDeath ==
    /\ []((WaitForVmReturned /\ run_result.ok) =>
            /\ dead
            /\ raised_by # {}
            /\ ~vm_alive \/ ~service_alive)
    /\ []((WaitForVmReturned /\ ~run_result.ok) =>
            run_result.err \in {"registerCallback", "link_to_death"})
    /\ [](/\ dead <=> raised_by # {}
          /\ "onDied" \in raised_by => ~vm_alive
          /\ "death_recipient" \in raised_by => ~service_alive)
    /\ [](AtWait => recipient_linked)
    /\ [][(recipient_linked /\ ~recipient_linked') => (dead /\ ~AtWait)]_vars
    /\ [][(AtWait /\ ~AtWait') => dead]_vars

\* C26 witness: wait_for_vm has returned Ok after the death recipient raised
\* the flag, the VM still running.
C26_Witness ==
    /\ WaitForVmReturned
    /\ run_result.ok
    /\ raised_by = {"death_recipient"}
    /\ vm_alive /\ ~service_alive
    /\ ~recipient_linked


(***************************************************************************)
(*             PROPERTIES: CAPACITY, CLASSIFIER, LOCK DISCIPLINE           *)
(***************************************************************************)

\* C27: after any sequence of accepted and rejected descriptor callbacks the
\* number of stored hash descriptors never exceeds the fixed capacity
\* NUM_OF_KNOWN_PARTITIONS, and the append in push_hash_descriptor is never
\* executed on a full collection: it cannot overflow or panic.
C27_CapacityNeverExceeded ==
    /\ [](/\ num_hash_descriptor(hash_descriptors) <= NUM_OF_KNOWN_PARTITIONS
          /\ ~cb_panicked)
    /\ [][hash_descriptors' # hash_descriptors =>
            /\ Len(hash_descriptors) < NUM_OF_KNOWN_PARTITIONS
            /\ Len(hash_descriptors') = Len(hash_descriptors) + 1
            /\ ~cb_panicked']_vars

\* C27 witness: the store is at capacity and a callback with a hash
\* descriptor of a known partition, differing from the stored one in its
\* digest, has just been rejected without a panic.
C27_Witness ==
    /\ Len(hash_descriptors) = NUM_OF_KNOWN_PARTITIONS
    /\ cb_user_data = "descriptors"
    /\ cb_record.tag = "hash" /\ cb_record.partition = "boot"
    /\ find_hash_descriptor(hash_descriptors, "Kernel").val.digest # cb_record.digest
    /\ ~cb_result.ok
    /\ ~cb_panicked

\* The three tests of the classifier.
IsExternalAbort(raw) == raw = EXT_DABT_32BIT
IsTranslationFault(raw) ==
    And64(raw, TRANSL_FAULT_ISS_MASK_32BIT) = TRANSL_FAULT_BASE_32BIT
IsPermissionFault(raw) ==
    And64(raw, PERM_FAULT_ISS_MASK_32BIT) = PERM_FAULT_BASE_32BIT

\* The tests raw satisfies.
TestsSatisfied(raw) ==
    { t \in {"DataAbortSyncExternalAbort", "DataAbortTranslationFault",
             "DataAbortPermissionFault"} :
        CASE t = "DataAbortSyncExternalAbort" -> IsExternalAbort(raw)
          [] t = "DataAbortTranslationFault"  -> IsTranslationFault(raw)
          [] t = "DataAbortPermissionFault"   -> IsPermissionFault(raw) }

\* The orders in which the three tests can be applied.
TestOrders ==
    { o \in [1..3 -> {"DataAbortSyncExternalAbort", "DataAbortTranslationFault",
                      "DataAbortPermissionFault"}] :
        \A i, j \in 1..3 : i # j => o[i] # o[j] }

\* The classification when the tests are applied in order o, first match
\* winning.
ClassifyInOrder(raw, o) ==
    IF o[1] \in TestsSatisfied(raw) THEN [tag |-> o[1]]
    ELSE IF o[2] \in TestsSatisfied(raw) THEN [tag |-> o[2]]
    ELSE IF o[3] \in TestsSatisfied(raw) THEN [tag |-> o[3]]
    ELSE [tag |-> "Unknown", v |-> raw]

\* C28: the three classifier tests are mutually exclusive: no raw value
\* satisfies more than one of raw == 0x96000010, raw & !0x143 == 0x96000004
\* and raw & !0x103 == 0x9600004C, so that Esr::from gives the classification
\* every order of the three tests gives.
C28_TestsMutuallyExclusive ==
    classify_out # [tag |-> "none"] =>
        /\ Cardinality(TestsSatisfied(classify_in)) <= 1
        /\ \A o \in TestOrders : ClassifyInOrder(classify_in, o) = classify_out
        /\ Esr_from_masked_first(classify_in) = classify_out

\* C28 witness: a syndrome with bits 2, 3, 4 and 6 set, next to the three
\* bases, has been classified: it satisfies none of the tests.
C28_Witness ==
    /\ classify_in = <<0, 0, \H9600, \H005C>>
    /\ classify_out = [tag |-> "Unknown", v |-> classify_in]
    /\ TestsSatisfied(classify_in) = {}

\* C29: when MEMORY's lock is held and MEMORY is also uninitialized, the
\* dispatch of a TranslationFault or PermissionFault returns
\* PageTableUnavailable, not PageTableNotInitialized: contention is tested
\* before initialization, and PageTableNotInitialized is returned only when
\* the lock was acquired.
C29_ContentionBeforeInit ==
    (Dispatched /\ Serviced /\ pc \in {"tail", "rebooted"}) =>
        /\ (memory_lock = "interrupted" /\ ~memory_init)
              => result = Err(PageTableUnavailable)
        /\ result = Err(PageTableNotInitialized)
              => (memory_lock = "free" /\ ~memory_init /\ tries = 1)
        /\ result = Err(PageTableUnavailable)
              => (memory_lock = "interrupted" /\ tries = 1)

\* C29 witness: a translation fault was dispatched while the interrupted code
\* held the lock of an uninitialized MEMORY; the diagnostics say the page
\* table is not available.
C29_Witness ==
    /\ InSync /\ pc = "rebooted"
    /\ esr = DataAbortTranslationFault
    /\ memory_lock = "interrupted" /\ ~memory_init
    /\ result = Err(PageTableUnavailable)
    /\ Len(out) = 3
    /\ out[2] = [text |-> "Page table is not available."]

\* C30: whenever handle_exception has returned, with Ok or with an error,
\* the handler no longer holds MEMORY's lock: the guard taken by a successful
\* try_lock is dropped before diagnostics are printed and before reboot is
\* invoked, and a handler that returns normally leaves the lock free for the
\* interrupted code.
C30_LockReleasedOnReturn ==
    /\ [](/\ memory_lock = "handler" => pc = "tracker"
          /\ (out # <<>> \/ pc = "rebooted") => memory_lock # "handler")
    /\ [][/\ (InHandleException /\ ~InHandleException') => memory_lock' # "handler"
          /\ (InSync /\ pc = "tail" /\ pc' = "idle") =>
                (memory_lock = "free" /\ memory_lock' = "free")
          /\ (pc = "tracker" \/ pc' = "tracker" \/ memory_lock' = memory_lock
              \/ (pc = "idle" /\ pc' = "idle"))]_vars

\* C30 witness: the tracker reported an error under the handler's lock; the
\* handler has printed its diagnostics and rebooted with the lock free.
C30_Witness ==
    /\ InSync /\ pc = "rebooted"
    /\ Len(tracker_calls) = 1
    /\ ~tracker_calls[1].res.ok
    /\ result.err.kind = "InternalError"
    /\ Len(out) = 3
    /\ memory_lock = "free"


\* Raw values with a bit set above bit 31.
HasHighBits(raw) == raw[1] # 0 \/ raw[2] # 0

\* Raw values that are the permission-fault syndrome of a read access:
\* 0x9600000C, with any of the bits 0x103.
IsReadPermissionFault(raw) == BitsOf(raw) \ {0, 1, 8} = ClassBits \cup {2, 3}

\* The classifier on every raw value of RawSyndromes: PermissionFault only
\* with the write bit, Unknown(raw) for read permission faults and for values
\* with high bits.
PermissionFaultNeedsWriteBit ==
    \A raw \in RawSyndromes :
        /\ Esr_from(raw) = DataAbortPermissionFault
              <=> BitsOf(raw) \ {0, 1, 8} = ClassBits \cup {2, 3, 6}
        /\ Esr_from(raw) = DataAbortPermissionFault => 6 \in BitsOf(raw)
        /\ (IsReadPermissionFault(raw) \/ HasHighBits(raw))
              => Esr_from(raw) = [tag |-> "Unknown", v |-> raw]

\* sync_exception_current was entered with a read permission fault or with a
\* syndrome that has high bits.
EnteredUnclassified ==
    InSync /\ pc # "idle" /\ (IsReadPermissionFault(esr_raw) \/ HasHighBits(esr_raw))

\* C31: PermissionFault is returned only for raw values whose write bit 0x40
\* is set (0x9600004C with any of the bits 0x103); the permission-fault
\* syndrome of a read access, such as 0x9600000C, and any raw value with a bit
\* set above bit 31 is classified Unknown(raw), and a same-level synchronous
\* entry with such a syndrome always ends in UnknownException and reboot.
C31_ReadPermissionFaultUnknown ==
    /\ [](/\ PermissionFaultNeedsWriteBit
          /\ (InSync /\ esr = DataAbortPermissionFault) => 6 \in BitsOf(esr_raw)
          /\ EnteredUnclassified =>
                /\ esr = [tag |-> "Unknown", v |-> esr_raw]
                /\ pc \in {"handle_exception", "tail", "rebooted"}
                /\ tracker_calls = <<>>
                /\ pc # "handle_exception" =>
                      /\ result = Err(UnknownException)
                      /\ ~ENABLED Return)
    /\ (EnteredUnclassified ~>
            (EnteredUnclassified /\ pc = "rebooted" /\ result = Err(UnknownException)))

\* C31 witness: an entry with 0x9600000C, taken while MEMORY was initialized
\* and its lock free, has ended in reboot with UnknownException.
C31_Witness ==
    /\ InSync /\ pc = "rebooted"
    /\ esr_raw = <<0, 0, \H9600, \H000C>>
    /\ esr = [tag |-> "Unknown", v |-> esr_raw]
    /\ memory_init /\ memory_lock = "free"
    /\ result = Err(UnknownException)
    /\ reboots = 1

====
